---- MODULE Spec2Model ----
(***************************************************************************)
(* A model of formulary: the formula tokenizer / parser / refactorer, the  *)
(* dependency resolver, and the install / upgrade / remove services.       *)
(*                                                                         *)
(* Formula text is a sequence of one-character strings.                    *)
(***************************************************************************)
EXTENDS Integers, Sequences, FiniteSets, TLC

VARIABLES
    inner,      \* formula text typed so far (the argument text once wrapped)
    tail,       \* formula text typed after the wrapping call
    wrap,       \* "none", or the scoping call the typed text was wrapped in
    fphase,     \* "typing" | "ran"
    rmap,       \* the Refactorer's rename_map of the run
    toks,       \* result of FormulaTokenizer.tokenize(formula)
    out,        \* result of Refactorer.refactor(formula)
    registry,   \* the registry a resolution runs against
    roots,      \* the requirements handed to Resolver.resolve
    resolution, \* the resolvelib Resolution: status, state stack, round
    rout,       \* what Resolver.resolve returned or raised
    sheet,      \* the sheet's named functions, but for __GSPROJECT__ and
                \* __LOCK__ while they hold what MetadataManager wrote
    project,    \* __GSPROJECT__ as MetadataManager reads it back
    lockfile,   \* __LOCK__ as MetadataManager reads it back
    svc,        \* the service call in progress or just ended
    pending,    \* the sheet writes the call has still to issue, and how it
                \* ends once they are through
    pre,        \* sheet, project and lockfile as they were when the call began
    issued,     \* number of sheet writes the call has issued
    nops,       \* number of service calls begun
    paths,      \* the paths of local packages that exist on disk
    cache,      \* the artifact cache directory: the file of each artifact
    tasks,      \* the download of each artifact that install has submitted
    inst,       \* the install whose downloads are modelled, step by step
    ninst,      \* number of such installs begun
    meta        \* a project's metadata and lockfile, what MetadataManager
                \* stored for them and what it read back

fvars == <<inner, tail, wrap, fphase, rmap, toks, out>>
rvars == <<registry, roots, resolution, rout>>
svars == <<sheet, project, lockfile, svc, pending, pre, issued, nops, paths>>
dvars == <<cache, tasks, inst, ninst>>
mvars == <<meta>>

vars == <<inner, tail, wrap, fphase, rmap, toks, out, registry, roots, resolution, rout,
          sheet, project, lockfile, svc, pending, pre, issued, nops, paths,
          cache, tasks, inst, ninst, meta>>

(***************************************************************************)
(* Bounds                                                                  *)
(***************************************************************************)
MaxAtoms == 3
MaxVer == 2
MaxOps == 2
MaxInstalls == 2
MaxDeps == 2

(***************************************************************************)
(* The sheet before any service call: no named function, no metadata       *)
(***************************************************************************)
NoProject == [present |-> FALSE, dependencies |-> <<>>]
NoLockfile == [present |-> FALSE, packages |-> <<>>]
NoOp == [kind |-> "none", status |-> "idle", error |-> "",
         packages |-> <<>>, resolutions |-> <<>>, name |-> "", conflicts |-> <<>>]
NoPlan == [writes |-> <<>>, then |-> "ok"]
LocalPaths == {1}
\* what a call finds when it begins: the sheet, and the disk
Snapshot(sh, pr, lf) == [sheet |-> sh, project |-> pr, lockfile |-> lf, paths |-> paths]

ServiceIdle ==
    /\ paths = LocalPaths
    /\ sheet = {}
    /\ project = NoProject
    /\ lockfile = NoLockfile
    /\ svc = NoOp
    /\ pending = NoPlan
    /\ pre = Snapshot({}, NoProject, NoLockfile)
    /\ issued = 0
    /\ nops = 0

(***************************************************************************)
(* The artifact cache before any download: no file, no task, no install    *)
(***************************************************************************)
Artifacts == {"A", "B"}
NoInstall == [status |-> "idle", batch |-> {}, skipped |-> {}, error |-> "",
              checks |-> 0, writes |-> 0]

\* nothing stored under __GSPROJECT__ and __LOCK__
NotSet == <<>>
MetadataIdle ==
    meta = [phase |-> "editing",
            dependencies |-> <<>>,
            packages |-> <<[name |-> <<"a">>, version |-> <<"1">>,
                            dependencies |-> <<>>, functions |-> <<>>]>>,
            funcs |-> [project |-> NotSet, lock |-> NotSet],
            got |-> [dependencies |-> <<>>, packages |-> <<>>]]

DownloadIdle ==
    /\ cache = [n \in Artifacts |-> "absent"]
    /\ tasks = [n \in Artifacts |-> "none"]
    /\ inst = NoInstall
    /\ ninst = 0

(***************************************************************************)
(* Characters                                                              *)
(***************************************************************************)
LowerLetters == <<"a","b","c","d","e","f","g","h","i","j","k","l","m",
                  "n","o","p","q","r","s","t","u","v","w","x","y","z">>
UpperLetters == <<"A","B","C","D","E","F","G","H","I","J","K","L","M",
                  "N","O","P","Q","R","S","T","U","V","W","X","Y","Z">>
Range(s) == {s[i] : i \in DOMAIN s}

\* F applied to the value of e, which is computed once
With(e, F(_)) == CHOOSE y \in {F(x) : x \in {e}} : TRUE
Digits == {"0","1","2","3","4","5","6","7","8","9"}
IdStartChars == Range(LowerLetters) \cup Range(UpperLetters) \cup {"_"}
IdChars == IdStartChars \cup Digits \cup {"."}
OperatorChars == {"+","-","*","/","^","&","=","<",">","!",":"}
WhitespaceChars == {" ", "\t", "\n", "\r", "\f"}
Quote == "\""

\* str.upper() on the characters an identifier can hold
UpperChar(c) ==
    IF \E i \in DOMAIN LowerLetters : LowerLetters[i] = c
    THEN UpperLetters[CHOOSE i \in DOMAIN LowerLetters : LowerLetters[i] = c]
    ELSE c
Upper(s) == [i \in DOMAIN s |-> UpperChar(s[i])]

(***************************************************************************)
(* FormulaTokenizer                                                        *)
(***************************************************************************)
\* number of characters of s from position i (1-based) on that are in class
RECURSIVE RunLen(_, _, _)
RunLen(s, i, class) ==
    IF i <= Len(s) /\ s[i] \in class THEN 1 + RunLen(s, i + 1, class) ELSE 0

\* r'"(?:""|[^"])*"' after the opening quote: i is the next position to read,
\* best the last position at which the closing quote matched (0: none).
\* The star is greedy, so the match kept is the one with the most iterations.
RECURSIVE ScanString(_, _, _)
ScanString(s, i, best) ==
    IF i > Len(s) THEN best
    ELSE IF s[i] = Quote
         THEN IF i + 1 <= Len(s) /\ s[i + 1] = Quote
              THEN ScanString(s, i + 2, i)
              ELSE i
         ELSE ScanString(s, i + 1, best)

\* each Match*(s, p) is the length matched at 1-based position p (0: no match)
MatchString(s, p) ==
    IF s[p] # Quote THEN 0
    ELSE LET e == ScanString(s, p + 1, 0)
         IN  IF e = 0 THEN 0 ELSE e - p + 1

\* r'\d+(?:\.\d+)?(?:[eE][+-]?\d+)?'
MatchNumber(s, p) ==
    LET n1 == RunLen(s, p, Digits)
        q  == p + n1
        n2 == IF q <= Len(s) /\ s[q] = "." /\ RunLen(s, q + 1, Digits) > 0
              THEN 1 + RunLen(s, q + 1, Digits) ELSE 0
        r  == q + n2
        sg == IF r + 1 <= Len(s) /\ s[r + 1] \in {"+", "-"} THEN 1 ELSE 0
        n3 == IF r <= Len(s) /\ s[r] \in {"e", "E"}
                 /\ RunLen(s, r + 1 + sg, Digits) > 0
              THEN 1 + sg + RunLen(s, r + 1 + sg, Digits) ELSE 0
    IN  IF n1 = 0 THEN 0 ELSE n1 + n2 + n3

\* r'[A-Za-z_][A-Za-z0-9_.]*'
MatchIdentifier(s, p) ==
    IF s[p] \in IdStartChars THEN 1 + RunLen(s, p + 1, IdChars) ELSE 0

MatchChar(s, p, c) == IF s[p] = c THEN 1 ELSE 0

\* PATTERNS, in order; the first pattern that matches wins
PATTERNS(s, p) ==
    << <<"STRING",     MatchString(s, p)>>,
       <<"NUMBER",     MatchNumber(s, p)>>,
       <<"IDENTIFIER", MatchIdentifier(s, p)>>,
       <<"LPAREN",     MatchChar(s, p, "(")>>,
       <<"RPAREN",     MatchChar(s, p, ")")>>,
       <<"LBRACKET",   MatchChar(s, p, "[")>>,
       <<"RBRACKET",   MatchChar(s, p, "]")>>,
       <<"LBRACE",     MatchChar(s, p, "{")>>,
       <<"RBRACE",     MatchChar(s, p, "}")>>,
       <<"COMMA",      MatchChar(s, p, ",")>>,
       <<"SEMICOLON",  MatchChar(s, p, ";")>>,
       <<"OPERATOR",   RunLen(s, p, OperatorChars)>>,
       <<"WHITESPACE", RunLen(s, p, WhitespaceChars)>> >>

Token(type, value, start, end) ==
    [type |-> type, value |-> value, start |-> start, end |-> end]

\* a tokenizer that would skip a character no pattern matches
SkipUnknown(s, pos) ==
    LET pats == PATTERNS(s, pos + 1)
        hits == {i \in DOMAIN pats : pats[i][2] > 0}
    IN  IF hits = {}
        THEN Token("UNKNOWN", <<>>, pos, pos + 1)
        ELSE LET i == CHOOSE j \in hits : \A k \in hits : j <= k
                 n == pats[i][2]
             IN  Token(pats[i][1], SubSeq(s, pos + 1, pos + n), pos, pos + n)

\* the token at 0-based position pos
NextToken(s, pos) ==
    LET pats == PATTERNS(s, pos + 1)
        hits == {i \in DOMAIN pats : pats[i][2] > 0}
    IN  IF hits = {}
        THEN Token("UNKNOWN", <<s[pos + 1]>>, pos, pos + 1)
        ELSE LET i == CHOOSE j \in hits : \A k \in hits : j <= k
                 n == pats[i][2]
             IN  Token(pats[i][1], SubSeq(s, pos + 1, pos + n), pos, pos + n)

RECURSIVE TokenizeFrom(_, _, _)
TokenizeFrom(s, pos, tokens) ==
    IF pos < Len(s)
    THEN LET t == NextToken(s, pos)
         IN  TokenizeFrom(s, t.end, Append(tokens, t))
    ELSE tokens

tokenize(formula) == TokenizeFrom(formula, 0, <<>>)

RECURSIVE JoinValues(_)
JoinValues(tokens) ==
    IF tokens = <<>> THEN <<>>
    ELSE Head(tokens).value \o JoinValues(Tail(tokens))

reconstruct(tokens) == JoinValues(tokens)

(***************************************************************************)
(* FormulaParser                                                           *)
(***************************************************************************)
\* what _consume() returns when no token is left
None == [type |-> "None", value |-> <<>>, start |-> 0, end |-> 0]

TokenNode(token) == [kind |-> "TokenNode", token |-> token]
FunctionCallNode(name_node, lparen, args, rparen, ws) ==
    [kind |-> "FunctionCallNode", name_node |-> name_node, lparen |-> lparen,
     args |-> args, rparen |-> rparen, pre_paren_whitespace |-> ws]

\* the lookahead of _parse_next: whitespace tokens from 0-based position p on
RECURSIVE WhitespaceRun(_, _)
WhitespaceRun(tokens, p) ==
    IF p < Len(tokens) /\ tokens[p + 1].type = "WHITESPACE"
    THEN 1 + WhitespaceRun(tokens, p + 1) ELSE 0

IsFunc(tokens, pos) ==
    LET la == pos + 1 + WhitespaceRun(tokens, pos + 1)
    IN  la < Len(tokens) /\ tokens[la + 1].type = "LPAREN"

RECURSIVE ParseNext(_, _), ParseArgs(_, _, _, _)

\* the "parse args until RPAREN" loop; yields [args, pos]
ParseArgs(tokens, pos, args, current_arg) ==
    IF pos >= Len(tokens)
    THEN [args |-> args, pos |-> pos]            \* unexpected EOF: break
    ELSE LET t == tokens[pos + 1] IN
         IF t.type = "RPAREN"
         THEN [args |-> IF current_arg # <<>> THEN Append(args, current_arg)
                        ELSE args,
               pos |-> pos]
         ELSE IF t.type \in {"COMMA", "SEMICOLON"}
         THEN ParseArgs(tokens, pos + 1,
                        Append(args, Append(current_arg, TokenNode(t))), <<>>)
         ELSE LET r == ParseNext(tokens, pos)
              IN  ParseArgs(tokens, r.pos, args, Append(current_arg, r.node))

\* _parse_next with self.pos = pos < len(tokens); yields [node, pos]
ParseNext(tokens, pos) ==
    LET token == tokens[pos + 1] IN
    IF token.type = "IDENTIFIER" /\ IsFunc(tokens, pos)
    THEN LET nws == WhitespaceRun(tokens, pos + 1)
             ws  == [i \in 1..nws |-> TokenNode(tokens[pos + 1 + i])]
             lp  == pos + 1 + nws
             r   == ParseArgs(tokens, lp + 1, <<>>, <<>>)
             eof == r.pos >= Len(tokens)
         IN  [node |-> FunctionCallNode(
                          TokenNode(token), TokenNode(tokens[lp + 1]), r.args,
                          TokenNode(IF eof THEN None ELSE tokens[r.pos + 1]),
                          ws),
              pos |-> IF eof THEN r.pos ELSE r.pos + 1]
    ELSE [node |-> TokenNode(token), pos |-> pos + 1]

RECURSIVE ParseFrom(_, _, _)
ParseFrom(tokens, pos, nodes) ==
    IF pos < Len(tokens)
    THEN LET r == ParseNext(tokens, pos)
         IN  ParseFrom(tokens, r.pos, Append(nodes, r.node))
    ELSE nodes

parse(tokens) == ParseFrom(tokens, 0, <<>>)

\* Node.to_string: token.value of a None token is an AttributeError
RECURSIVE NodeRaises(_), NodeText(_)
NodeRaises(node) ==
    IF node.kind = "TokenNode" THEN node.token = None
    ELSE \/ node.rparen.token = None
         \/ \E arg \in Range(node.args) : \E n \in Range(arg) : NodeRaises(n)

RECURSIVE ConcatNodes(_), ConcatArgs(_)
ConcatNodes(nodes) ==
    IF nodes = <<>> THEN <<>>
    ELSE NodeText(Head(nodes)) \o ConcatNodes(Tail(nodes))
ConcatArgs(args) ==
    IF args = <<>> THEN <<>>
    ELSE ConcatNodes(Head(args)) \o ConcatArgs(Tail(args))

NodeText(node) ==
    IF node.kind = "TokenNode" THEN node.token.value
    ELSE node.name_node.token.value
         \o ConcatNodes(node.pre_paren_whitespace)
         \o node.lparen.token.value
         \o ConcatArgs(node.args)
         \o node.rparen.token.value

(***************************************************************************)
(* Refactorer                                                              *)
(***************************************************************************)
\* rename maps are functions from identifier text to alias text
InMap(m, name) == name \in DOMAIN m

\* Refactorer._transform_token
transform_token(m, node, scope) ==
    IF node.token.type = "IDENTIFIER"
       /\ node.token.value \notin scope
       /\ InMap(m, node.token.value)
    THEN TokenNode(Token("IDENTIFIER", m[node.token.value],
                         node.token.start, node.token.end))
    ELSE node

\* the first IDENTIFIER TokenNode of an argument slice (<<>>: decl_name = None)
RECURSIVE DeclName(_)
DeclName(arg) ==
    IF arg = <<>> THEN <<>>
    ELSE IF Head(arg).kind = "TokenNode" /\ Head(arg).token.type = "IDENTIFIER"
         THEN <<Head(arg).token.value>>
         ELSE DeclName(Tail(arg))

RECURSIVE transform(_, _, _), transform_function(_, _, _),
          transform_let(_, _, _, _, _), transform_lambda(_, _, _, _, _),
          TransformArg(_, _, _)

TransformArg(m, arg, scope) == [j \in DOMAIN arg |-> transform(m, arg[j], scope)]

\* Refactorer._transform
transform(m, node, scope) ==
    IF node.kind = "FunctionCallNode" THEN transform_function(m, node, scope)
    ELSE transform_token(m, node, scope)

\* the second ("restart") loop of _transform_let: i is the 0-based index,
\* yields new_args
transform_let(m, node, i, current_scope, new_args) ==
    LET num_args == Len(node.args) IN
    IF i >= num_args THEN new_args
    ELSE LET arg == node.args[i + 1] IN
         IF i = num_args - 1
         THEN transform_let(m, node, i + 1, current_scope,
                            Append(new_args, TransformArg(m, arg, current_scope)))
         ELSE LET decl_name == DeclName(arg)
                  val_arg   == node.args[i + 2]
              IN  transform_let(m, node, i + 2,
                     current_scope \cup Range(decl_name),
                     new_args \o <<arg, TransformArg(m, val_arg, current_scope)>>)

\* the loop of _transform_lambda
transform_lambda(m, node, i, current_scope, new_args) ==
    LET num_args == Len(node.args) IN
    IF i >= num_args THEN new_args
    ELSE LET arg == node.args[i + 1] IN
         IF i = num_args - 1
         THEN transform_lambda(m, node, i + 1, current_scope,
                               Append(new_args, TransformArg(m, arg, current_scope)))
         ELSE transform_lambda(m, node, i + 1,
                               current_scope \cup Range(DeclName(arg)),
                               Append(new_args, arg))

LET_NAME == <<"L", "E", "T">>
LAMBDA_NAME == <<"L", "A", "M", "B", "D", "A">>

\* Refactorer._transform_function
transform_function(m, node, scope) ==
    LET func_name == Upper(node.name_node.token.value) IN
    IF func_name = LET_NAME
    THEN FunctionCallNode(node.name_node, node.lparen,
                          transform_let(m, node, 0, scope, <<>>),
                          node.rparen, node.pre_paren_whitespace)
    ELSE IF func_name = LAMBDA_NAME
    THEN FunctionCallNode(node.name_node, node.lparen,
                          transform_lambda(m, node, 0, scope, <<>>),
                          node.rparen, node.pre_paren_whitespace)
    ELSE FunctionCallNode(transform_token(m, node.name_node, scope), node.lparen,
                          [i \in DOMAIN node.args |->
                              TransformArg(m, node.args[i], scope)],
                          node.rparen, node.pre_paren_whitespace)

\* Refactorer.refactor: the text returned, or the exception raised
refactor(m, formula) ==
    With(parse(tokenize(formula)), LAMBDA nodes :
    With([i \in DOMAIN nodes |-> transform(m, nodes[i], {})],
         LAMBDA transformed_nodes :
            IF \E n \in Range(transformed_nodes) : NodeRaises(n)
            THEN [status |-> "AttributeError", text |-> <<>>]
            ELSE [status |-> "ok", text |-> ConcatNodes(transformed_nodes)]))

(***************************************************************************)
(* Formula inputs: text typed character by character, optionally wrapped   *)
(* as the body of a LAMBDA(e, ...), LET(e, ...) or LET(e, 1, ...) call     *)
(* and followed by more typed text.                                        *)
(***************************************************************************)
TypedChars == {Quote, "1", ".", "e", "+", " ", "(", ")", ","}
Wraps == {"LAMBDA", "LET", "LET_PAIR"}
WrapHead(w) == IF w = "LAMBDA" THEN LAMBDA_NAME ELSE LET_NAME
\* the arguments already written after the first name: with "LET_PAIR" the
\* pair (e, 1) is complete and the typed text is the expression
WrapArgs(w) == IF w = "LET_PAIR" THEN <<"1", ",">> ELSE <<>>
Param == <<"e">>
Alias == <<"z", "z">>

RenameMaps == { <<>> ,
                [k \in {Param} |-> Alias],
                [k \in {Param, Alias, LAMBDA_NAME, LET_NAME} |->
                    IF k = Param THEN Alias ELSE <<"q">>] }

Formula(w, in, tl) ==
    IF w = "none" THEN in
    ELSE WrapHead(w) \o <<"(">> \o Param \o <<",">> \o WrapArgs(w) \o in
         \o <<")">> \o tl

formula == Formula(wrap, inner, tail)

FormulaIdle ==
    /\ inner = <<>>
    /\ tail = <<>>
    /\ wrap = "none"
    /\ fphase = "typing"
    /\ rmap = <<>>
    /\ toks = <<>>
    /\ out = [status |-> "none", text |-> <<>>]

TypeInner(c) ==
    /\ fphase = "typing"
    /\ wrap = "none"
    /\ Len(inner) < MaxAtoms
    /\ inner' = Append(inner, c)
    /\ UNCHANGED <<tail, wrap, fphase, rmap, toks, out>>
    /\ UNCHANGED <<rvars, svars, dvars, mvars>>

WrapCall(w) ==
    /\ fphase = "typing"
    /\ wrap = "none"
    /\ wrap' = w
    /\ UNCHANGED <<inner, tail, fphase, rmap, toks, out>>
    /\ UNCHANGED <<rvars, svars, dvars, mvars>>

TypeTail(c) ==
    /\ fphase = "typing"
    /\ wrap # "none"
    /\ Len(inner) + Len(tail) < MaxAtoms
    /\ tail' = Append(tail, c)
    /\ UNCHANGED <<inner, wrap, fphase, rmap, toks, out>>
    /\ UNCHANGED <<rvars, svars, dvars, mvars>>

\* FormulaTokenizer().tokenize(formula) and Refactorer(m).refactor(formula)
RunRefactor(m) ==
    /\ fphase = "typing"
    /\ fphase' = "ran"
    /\ rmap' = m
    /\ toks' = tokenize(formula)
    /\ out' = refactor(m, formula)
    /\ UNCHANGED <<inner, tail, wrap>>
    /\ UNCHANGED <<rvars, svars, dvars, mvars>>

FormulaNext ==
    \/ \E c \in TypedChars : TypeInner(c)
    \/ \E w \in Wraps : WrapCall(w)
    \/ \E c \in TypedChars : TypeTail(c)
    \/ \E m \in RenameMaps : RunRefactor(m)


(***************************************************************************)
(* Resolution: domain models, FormularyProvider and the resolvelib         *)
(* Resolution that Resolver.resolve drives.  Versions are integers (n      *)
(* stands for "n.0.0"); a registry reg is a record                         *)
(*   versions : package name -> set of versions                            *)
(*   deps     : <<name, version>> -> sequence of Dependency                *)
(***************************************************************************)
AnySpec == [op |-> "", ver |-> 0]                 \* specifier ""
Specifier(op, v) == [op |-> op, ver |-> v]
Dependency(n, s) == [name |-> n, specifier |-> s]
Package(n, v) == [name |-> n, version |-> v]
NoParent == [name |-> "", version |-> 0]          \* parent=None

\* candidate.parsed_version in requirement.specifier_set
InSpecifierSet(v, s) ==
    CASE s.op = ""   -> TRUE
      [] s.op = "==" -> v = s.ver
      [] s.op = ">=" -> v >= s.ver
      [] s.op = "<"  -> v < s.ver
      [] s.op = "!=" -> v # s.ver

\* a provider that would compare names only
NameOnly(requirement, candidate) == requirement.name = candidate.name

\* FormularyProvider.is_satisfied_by
is_satisfied_by(requirement, candidate) ==
    /\ requirement.name = candidate.name
    /\ InSpecifierSet(candidate.version, requirement.specifier)

\* sorted(..., reverse=True) of a set of versions
RECURSIVE SortDescending(_)
SortDescending(S) ==
    IF S = {} THEN <<>>
    ELSE LET mx == CHOOSE v \in S : \A w \in S : w <= v
         IN  <<mx>> \o SortDescending(S \ {mx})

\* registry.get_versions: an unknown name has no versions
get_versions(reg, identifier) ==
    IF identifier \in DOMAIN reg.versions THEN reg.versions[identifier] ELSE {}

\* FormularyProvider.find_matches: the incompatibilities argument is not read
find_matches(reg, identifier, requirements) ==
    SortDescending({v \in get_versions(reg, identifier) :
        \A k \in DOMAIN requirements :
            is_satisfied_by(requirements[k], Package(identifier, v))})

\* FormularyProvider.get_dependencies
get_dependencies(reg, candidate) == reg.deps[<<candidate.name, candidate.version>>]

\* FormularyProvider.get_preference
get_preference(criterion) == Len(criterion.candidates)

\* criteria is a dict in insertion order: a sequence of criteria, each with its key
CritIndex(criteria, n) ==
    IF \E i \in DOMAIN criteria : criteria[i].name = n
    THEN CHOOSE i \in DOMAIN criteria : criteria[i].name = n
    ELSE 0

IterRequirement(criterion) ==
    [k \in DOMAIN criterion.information |-> criterion.information[k].requirement]

\* Resolution._add_to_criteria; conflict = RequirementsConflicted(criterion)
add_to_criteria(reg, criteria, requirement, parent) ==
    LET identifier == requirement.name
        i == CritIndex(criteria, identifier)
        incompatibilities == IF i > 0 THEN criteria[i].incompatibilities ELSE {}
        information ==
            (IF i > 0 THEN criteria[i].information ELSE <<>>)
            \o << [requirement |-> requirement, parent |-> parent] >>
        matches == find_matches(reg, identifier,
                      [k \in DOMAIN information |-> information[k].requirement])
        criterion == [name |-> identifier, candidates |-> matches,
                      information |-> information,
                      incompatibilities |-> incompatibilities]
    IN  IF matches = <<>>
        THEN [conflict |-> TRUE, criterion |-> criterion, criteria |-> criteria]
        ELSE [conflict |-> FALSE, criterion |-> criterion,
              criteria |-> IF i > 0 THEN [criteria EXCEPT ![i] = criterion]
                           ELSE Append(criteria, criterion)]

\* Resolution._get_updated_criteria: the candidate's dependencies added in turn
RECURSIVE AddDependencies(_, _, _, _)
AddDependencies(reg, criteria, deps, candidate) ==
    IF deps = <<>>
    THEN [conflict |-> FALSE, criterion |-> <<>>, criteria |-> criteria]
    ELSE LET r == add_to_criteria(reg, criteria, Head(deps), candidate)
         IN  IF r.conflict THEN r
             ELSE AddDependencies(reg, r.criteria, Tail(deps), candidate)

get_updated_criteria(reg, state, candidate) ==
    AddDependencies(reg, state.criteria, get_dependencies(reg, candidate), candidate)

\* the OrderedDict mapping as a sequence of packages, the last pin last
MappingPin(mapping, n) ==
    IF \E i \in DOMAIN mapping : mapping[i].name = n
    THEN mapping[CHOOSE i \in DOMAIN mapping : mapping[i].name = n]
    ELSE NoParent

RECURSIVE MappingPop(_, _)
MappingPop(mapping, n) ==
    IF mapping = <<>> THEN <<>>
    ELSE IF Head(mapping).name = n THEN MappingPop(Tail(mapping), n)
         ELSE <<Head(mapping)>> \o MappingPop(Tail(mapping), n)

\* Resolution._is_current_pin_satisfying
is_current_pin_satisfying(state, criterion) ==
    LET current_pin == MappingPin(state.mapping, criterion.name)
    IN  /\ current_pin # NoParent
        /\ \A k \in DOMAIN criterion.information :
              is_satisfied_by(criterion.information[k].requirement, current_pin)

\* Resolution._attempt_to_pin_criterion: the loop over criterion.candidates;
\* yields the state after the pin and the causes (conflicted criteria)
RECURSIVE TryCandidates(_, _, _, _, _)
TryCandidates(reg, state, name, candidates, causes) ==
    IF candidates = <<>>
    THEN [pinned |-> FALSE, state |-> state, causes |-> causes]
    ELSE LET candidate == Package(name, Head(candidates))
             r == get_updated_criteria(reg, state, candidate)
         IN  IF r.conflict
             THEN TryCandidates(reg, state, name, Tail(candidates),
                                Append(causes, r.criterion))
             ELSE [pinned |-> TRUE,
                   state |-> [mapping |-> Append(MappingPop(state.mapping, name),
                                                 candidate),
                              criteria |-> r.criteria],
                   causes |-> <<>>]

attempt_to_pin_criterion(reg, state, name) ==
    TryCandidates(reg, state, name,
                  state.criteria[CritIndex(state.criteria, name)].candidates, <<>>)

\* Resolution._remove_information_from_criteria
remove_information_from_criteria(criteria, parents) ==
    [i \in DOMAIN criteria |->
        [criteria[i] EXCEPT !.information =
            SelectSeq(criteria[i].information,
                      LAMBDA inf : inf.parent = NoParent
                                   \/ inf.parent.name \notin parents)]]

\* causes = [i for c in failure_causes for i in c.information]
RECURSIVE FlattenCauses(_)
FlattenCauses(failure_causes) ==
    IF failure_causes = <<>> THEN <<>>
    ELSE Head(failure_causes).information \o FlattenCauses(Tail(failure_causes))

\* _backjump's _patch_criteria over incompatibilities_from_broken, a sequence
\* of <<key, incompatibilities>>; yields [ok, criteria]
RECURSIVE PatchCriteria(_, _, _)
PatchCriteria(reg, criteria, from_broken) ==
    IF from_broken = <<>> THEN [ok |-> TRUE, criteria |-> criteria]
    ELSE LET k == Head(from_broken)[1]
             incompatibilities == Head(from_broken)[2]
             i == CritIndex(criteria, k)
         IN  IF incompatibilities = {} \/ i = 0
             THEN PatchCriteria(reg, criteria, Tail(from_broken))
             ELSE LET matches == find_matches(reg, k, IterRequirement(criteria[i]))
                  IN  IF matches = <<>> THEN [ok |-> FALSE, criteria |-> criteria]
                      ELSE PatchCriteria(reg,
                             [criteria EXCEPT ![i] =
                                [name |-> k, candidates |-> matches,
                                 information |-> criteria[i].information,
                                 incompatibilities |->
                                    incompatibilities
                                    \cup criteria[i].incompatibilities]],
                             Tail(from_broken))

DependencyNames(reg, candidate) ==
    {get_dependencies(reg, candidate)[k].name :
        k \in DOMAIN get_dependencies(reg, candidate)}

\* the inner "while not incompatible_state" loop of _backjump: pops states until
\* the popped state's last pin depends on an incompatible name;
\* raised = ResolutionImpossible (no state, or no pin, is left to pop)
RECURSIVE PopBroken(_, _, _)
PopBroken(reg, states, incompatible_deps) ==
    IF states = <<>> \/ states[Len(states)].mapping = <<>>
    THEN [raised |-> TRUE, states |-> <<>>, broken |-> <<>>, pin |-> NoParent]
    ELSE LET broken_state == states[Len(states)]
             rest == SubSeq(states, 1, Len(states) - 1)
             candidate == broken_state.mapping[Len(broken_state.mapping)]
         IN  IF DependencyNames(reg, candidate) \cap incompatible_deps # {}
             THEN [raised |-> FALSE, states |-> rest,
                   broken |-> broken_state, pin |-> candidate]
             ELSE PopBroken(reg, rest, incompatible_deps)

\* Resolution._backjump; yields [result, states], result one of
\* "ok" (True), "fail" (False), "raised" (ResolutionImpossible)
RECURSIVE Backjump(_, _, _)
Backjump(reg, states, incompatible_deps) ==
    IF Len(states) < 3 THEN [result |-> "fail", states |-> states]
    ELSE LET p == PopBroken(reg, SubSeq(states, 1, Len(states) - 1),
                            incompatible_deps)
         IN  IF p.raised THEN [result |-> "raised", states |-> p.states]
             ELSE LET from_broken ==
                          [i \in DOMAIN p.broken.criteria |->
                              <<p.broken.criteria[i].name,
                                p.broken.criteria[i].incompatibilities>>]
                          \o << <<p.pin.name, {p.pin.version}>> >>
                      base == p.states[Len(p.states)]
                      patched == PatchCriteria(reg, base.criteria, from_broken)
                      pushed == Append(p.states,
                                       [base EXCEPT !.criteria = patched.criteria])
                  IN  IF patched.ok THEN [result |-> "ok", states |-> pushed]
                      ELSE Backjump(reg, pushed, incompatible_deps)

backjump(reg, states, causes) ==
    Backjump(reg, states,
             {causes[k].parent.name : k \in {j \in DOMAIN causes :
                                              causes[j].parent # NoParent}}
             \cup {causes[k].requirement.name : k \in DOMAIN causes})

\* resolvelib's default max_rounds, which Resolver.resolve leaves as it is
MaxRounds == 100

\* Resolution.resolve up to the first round: the root state and its copy
RECURSIVE AddRoots(_, _, _)
AddRoots(reg, criteria, requirements) ==
    IF requirements = <<>>
    THEN [conflict |-> FALSE, criterion |-> <<>>, criteria |-> criteria]
    ELSE LET r == add_to_criteria(reg, criteria, Head(requirements), NoParent)
         IN  IF r.conflict THEN r
             ELSE AddRoots(reg, r.criteria, Tail(requirements))

ResolutionStart(reg, requirements) ==
    LET r == AddRoots(reg, <<>>, requirements)
        root == [mapping |-> <<>>, criteria |-> r.criteria]
    IN  IF r.conflict
        THEN [status |-> "ResolutionImpossible", states |-> <<>>, round |-> 0,
              causes |-> r.criterion.information]
        ELSE [status |-> "running", states |-> <<root, root>>, round |-> 0,
              causes |-> <<>>]

UnsatisfiedNames(state) ==
    LET un == SelectSeq(state.criteria,
                        LAMBDA c : ~is_current_pin_satisfying(state, c))
    IN  [k \in DOMAIN un |-> un[k].name]

\* min(unsatisfied_names, key=self._get_preference): the first of the least
MostPreferred(state, names) ==
    LET pref(n) == get_preference(state.criteria[CritIndex(state.criteria, n)])
        i == CHOOSE j \in DOMAIN names :
                /\ \A k \in DOMAIN names : pref(names[j]) <= pref(names[k])
                /\ \A k \in 1..(j - 1) : pref(names[k]) > pref(names[j])
    IN  names[i]

\* one iteration of "for round_index in range(max_rounds)", or the
\* ResolutionTooDeep that ends the loop
ResolutionRound(reg, rs) ==
    IF rs.round >= MaxRounds
    THEN [rs EXCEPT !.status = "ResolutionTooDeep"]
    ELSE
    LET state == rs.states[Len(rs.states)]
        unsatisfied_names == UnsatisfiedNames(state)
    IN  IF unsatisfied_names = <<>> THEN [rs EXCEPT !.status = "done"]
        ELSE
        LET satisfied_names ==
                {state.criteria[i].name : i \in DOMAIN state.criteria}
                \ Range(unsatisfied_names)
            name == MostPreferred(state, unsatisfied_names)
            a == attempt_to_pin_criterion(reg, state, name)
        IN  IF ~a.pinned
            THEN LET causes == FlattenCauses(a.causes)
                     b == backjump(reg, rs.states, causes)
                 IN  IF b.result = "ok"
                     THEN [status |-> "running", states |-> b.states,
                           round |-> rs.round + 1, causes |-> causes]
                     ELSE [status |-> "ResolutionImpossible", states |-> b.states,
                           round |-> rs.round, causes |-> causes]
            ELSE LET newly_unsatisfied_names ==
                         {n \in satisfied_names :
                             ~is_current_pin_satisfying(a.state,
                                 a.state.criteria[CritIndex(a.state.criteria, n)])}
                     pinned == [a.state EXCEPT !.criteria =
                                   remove_information_from_criteria(
                                       a.state.criteria, newly_unsatisfied_names)]
                 IN  [status |-> "running",
                      states |-> SubSeq(rs.states, 1, Len(rs.states) - 1)
                                 \o <<pinned, pinned>>,
                      round |-> rs.round + 1, causes |-> rs.causes]

\* _build_result: the keys with a route to the root through current pins
RECURSIVE Connected(_, _)
Connected(state, connected) ==
    LET more == {state.criteria[i].name : i \in
                   {j \in DOMAIN state.criteria :
                      \E k \in DOMAIN state.criteria[j].information :
                         LET p == state.criteria[j].information[k].parent
                         IN  \/ p = NoParent
                             \/ /\ p.name \in connected
                                /\ MappingPin(state.mapping, p.name) = p}}
    IN  IF more \subseteq connected THEN connected
        ELSE Connected(state, connected \cup more)

\* list(result.mapping.values())
ResultPackages(rs) ==
    LET state == rs.states[Len(rs.states)]
        connected == Connected(state, {})
    IN  SelectSeq(state.mapping, LAMBDA c : c.name \in connected)

\* Resolver.resolve to its end: [status, packages, causes]; status "ValueError"
\* is the converted ResolutionImpossible, "ResolutionTooDeep" is not converted
RECURSIVE RunRounds(_, _)
RunRounds(reg, rs) ==
    IF rs.status = "running"
    THEN With(ResolutionRound(reg, rs), LAMBDA next : RunRounds(reg, next))
    ELSE rs

\* a conversion of ResolutionImpossible that drops the failed requirements
OutcomeWithoutPayload(rs) ==
    [status |-> CASE rs.status = "done" -> "ok"
                  [] rs.status = "ResolutionImpossible" -> "ValueError"
                  [] OTHER -> rs.status,
     packages |-> IF rs.status = "done" THEN ResultPackages(rs) ELSE <<>>,
     failed_reqs |-> <<>>]

ResolveOutcome(rs) ==
    [status |-> CASE rs.status = "done" -> "ok"
                  [] rs.status = "ResolutionImpossible" -> "ValueError"
                  [] OTHER -> rs.status,
     packages |-> IF rs.status = "done" THEN ResultPackages(rs) ELSE <<>>,
     failed_reqs |-> IF rs.status = "ResolutionImpossible"
                     THEN [k \in DOMAIN rs.causes |-> rs.causes[k].requirement]
                     ELSE <<>>]

resolve(reg, requirements) ==
    ResolveOutcome(RunRounds(reg, ResolutionStart(reg, requirements)))

(***************************************************************************)
(* Resolution runs: a registry and root requirements drawn from a bounded  *)
(* family, Resolver.resolve taken one round at a time.                     *)
(***************************************************************************)
Versions == 1..MaxVer
RegistryNames == {"A", "B", "C"}            \* "D" is in no registry
EqSpecs == {Specifier("==", v) : v \in Versions}
DepsOfA == {<<>>, <<Dependency("B", AnySpec)>>}
           \cup {<<Dependency("C", sp)>> : sp \in EqSpecs}
DepsOfB == {<<>>, <<Dependency("A", Specifier("==", 1))>>}
           \cup {<<Dependency("C", sp)>> : sp \in EqSpecs}
Candidates == RegistryNames \X Versions

Registries ==
    {[versions |-> [n \in RegistryNames |-> Versions], deps |-> d] :
        d \in {f \in [Candidates -> DepsOfA \cup DepsOfB] :
                  \A c \in Candidates :
                     CASE c[1] = "A" -> f[c] \in DepsOfA
                       [] c[1] = "B" -> f[c] \in DepsOfB
                       [] OTHER      -> f[c] = <<>>}}

RootChoices ==
    { <<Dependency("A", AnySpec)>>,
      <<Dependency("B", AnySpec)>>,
      <<Dependency("A", AnySpec), Dependency("B", AnySpec)>>,
      <<Dependency("B", AnySpec), Dependency("A", AnySpec)>>,
      <<Dependency("A", AnySpec), Dependency("C", Specifier("==", 1))>>,
      <<Dependency("A", AnySpec), Dependency("B", AnySpec), Dependency("C", AnySpec)>>,
      <<Dependency("D", AnySpec)>>,
      <<Dependency("A", AnySpec), Dependency("D", AnySpec)>> }

NoRegistry == [versions |-> <<>>, deps |-> <<>>]
IdleResolution == [status |-> "idle", states |-> <<>>, round |-> 0, causes |-> <<>>]
NoOutcome == [status |-> "none", packages |-> <<>>, failed_reqs |-> <<>>]

ResolveIdle ==
    /\ registry = NoRegistry
    /\ roots = <<>>
    /\ resolution = IdleResolution
    /\ rout = NoOutcome

ResolveInit ==
    /\ FormulaIdle
    /\ ServiceIdle
    /\ DownloadIdle
    /\ MetadataIdle
    /\ registry \in Registries
    /\ roots \in RootChoices
    /\ resolution = IdleResolution
    /\ rout = NoOutcome

OutcomeOf(r) == IF r.status = "running" THEN NoOutcome ELSE ResolveOutcome(r)

\* Resolver.resolve called: the root criteria
ResolveStart ==
    /\ resolution.status = "idle"
    /\ resolution' = ResolutionStart(registry, roots)
    /\ rout' = OutcomeOf(resolution')
    /\ UNCHANGED <<registry, roots>>
    /\ UNCHANGED <<fvars, svars, dvars, mvars>>

\* one round of the resolution
ResolveRound ==
    /\ resolution.status = "running"
    /\ resolution' = ResolutionRound(registry, resolution)
    /\ rout' = OutcomeOf(resolution')
    /\ UNCHANGED <<registry, roots>>
    /\ UNCHANGED <<fvars, svars, dvars, mvars>>

ResolveNext == ResolveStart \/ ResolveRound

SpecResolve == ResolveInit /\ [][ResolveNext]_vars

(***************************************************************************)
(* The registry the services run against, and what extract_package finds   *)
(* in each artifact.  A requirement string "A==1" is held as the           *)
(* Dependency (name, specifier) that install's pattern splits it into.     *)
(***************************************************************************)
WorldNames == {"A", "B", "C", "E"}

WorldDependencies(n, v) ==
    IF n = "A" /\ v >= 2 THEN <<Dependency("B", AnySpec)>> ELSE <<>>

World == [versions |-> [n \in WorldNames |-> Versions],
          deps |-> [c \in WorldNames \X Versions |-> WorldDependencies(c[1], c[2])]]

VersionDigits == <<"1", "2", "3", "4", "5", "6", "7", "8", "9">>

\* a dependency entry "name@file:path": the specifier holds the path
LocalDependency(n, path) == Dependency(n, Specifier("@file:", path))
IsLocal(dep) == dep.specifier.op = "@file:"
\* the version "local" of a lockfile entry
LocalVersion == MaxVer + 1
\* metadata["name"] of the archive at a path
LocalName(path) == "L"
\* metadata.get("dependencies", []) of an extracted archive
archive_dependencies(pkg) ==
    IF pkg.version = LocalVersion THEN <<>> ELSE get_dependencies(World, pkg)

Function(n, d) == [name |-> n, definition |-> d]

\* Packager.extract_package: the functions of an artifact, in file order
extract_package(n, v) ==
    CASE n = "A" /\ v = 1 -> <<Function("F", <<VersionDigits[v]>>),
                               Function("G", <<"F", "(">>)>>
      [] n = "A" /\ v > 1 -> <<Function("F", <<"F", "(", VersionDigits[v], ")">>)>>
      [] n = "B"          -> <<Function("G", <<VersionDigits[v]>>)>>
      [] n = "E"          -> <<Function("__LOCK__", <<VersionDigits[v]>>)>>
      [] n = "L"          -> <<Function("H", <<"1">>), Function("K", <<"H">>)>>
      [] OTHER            -> <<>>

(***************************************************************************)
(* Python dicts in insertion order: sequences of records keyed by .name    *)
(***************************************************************************)
Keys(d) == {d[i].name : i \in DOMAIN d}
Get(d, k) == d[CHOOSE i \in DOMAIN d : d[i].name = k]
\* d[k] = entry: an existing key keeps its place
Put(d, entry) ==
    IF entry.name \in Keys(d)
    THEN [i \in DOMAIN d |-> IF d[i].name = entry.name THEN entry ELSE d[i]]
    ELSE Append(d, entry)
KeySeq(d) == [i \in DOMAIN d |-> d[i].name]

RECURSIVE Flatten(_)
Flatten(ss) == IF ss = <<>> THEN <<>> ELSE Head(ss) \o Flatten(Tail(ss))

(***************************************************************************)
(* SheetClient and MetadataManager: what a service reads                   *)
(***************************************************************************)
PROJECT_NAME == "__GSPROJECT__"
LOCK_NAME == "__LOCK__"

\* get_named_functions().keys()
NamedFunctions(st) ==
    {f.name : f \in st.sheet}
    \cup (IF st.project.present THEN {PROJECT_NAME} ELSE {})
    \cup (IF st.lockfile.present THEN {LOCK_NAME} ELSE {})

PackageLock(n, v, deps, fns) ==
    [name |-> n, version |-> v, dependencies |-> deps, functions |-> fns]

(***************************************************************************)
(* The sheet writes a service issues, each one awaited call                *)
(***************************************************************************)
set_project_metadata(deps) == [fn |-> "set_project_metadata", dependencies |-> deps]
set_lockfile(packages) == [fn |-> "set_lockfile", packages |-> packages]
delete_function(n) == [fn |-> "delete_function", name |-> n]
create_function(func) == [fn |-> "create_function", function |-> func]
update_function(func) == [fn |-> "update_function", function |-> func]

\* what a service call does after its reads: the writes in the order it
\* issues them, then its end ("ok", or the exception it raises), with the
\* package and names of a CollisionError
Plan(writes, then) == [writes |-> writes, then |-> then, name |-> "", conflicts |-> <<>>]
Raise(error) == Plan(<<>>, error)

(***************************************************************************)
(* InstallService.install.  A path requested with local = True is held as   *)
(* the entry name@file:path that step 2 makes of it.                       *)
(***************************************************************************)
\* the body of "for pkg in packages": one entry merged into current_deps
\* d.startswith(f"{pkg_name}@") or d == pkg_name, pkg_name being what stands
\* before "@" in dep_entry, or all of it
Replaces(dep_entry, d) ==
    \/ d = dep_entry
    \/ /\ d.name = dep_entry.name
       /\ IF IsLocal(dep_entry) THEN IsLocal(d) \/ d.specifier = AnySpec
          ELSE IsLocal(d) /\ dep_entry.specifier = AnySpec

MergeDependency(current_deps, dep_entry) ==
    IF \E i \in DOMAIN current_deps : current_deps[i] = dep_entry
    THEN current_deps
    ELSE Append(SelectSeq(current_deps, LAMBDA d : ~Replaces(dep_entry, d)), dep_entry)

RECURSIVE MergeDependencies(_, _)
MergeDependencies(current_deps, packages) ==
    IF packages = <<>> THEN current_deps
    ELSE MergeDependencies(MergeDependency(current_deps, Head(packages)),
                           Tail(packages))

RECURSIVE PutAll(_, _)
PutAll(d, entries) ==
    IF entries = <<>> THEN d ELSE PutAll(Put(d, Head(entries)), Tail(entries))

\* "3. resolve dependencies": the requirements of the entries that are not
\* local (the local archive declares no dependencies)
requirements_of(current_deps) == SelectSeq(current_deps, LAMBDA d : ~IsLocal(d))

\* local_packages: name -> path, of the entries "name@file:path"
local_packages(current_deps) == PutAll(<<>>, SelectSeq(current_deps, IsLocal))

\* "if not path.exists(): continue"
existing_local_packages(current_deps, st) ==
    SelectSeq(local_packages(current_deps), LAMBDA d : d.specifier.ver \in st.paths)

\* packages_to_install: the local packages whose path exists, then the
\* resolved ones that are not local
packages_to_install(current_deps, resolved_packages, st) ==
    [i \in DOMAIN existing_local_packages(current_deps, st) |->
        Package(existing_local_packages(current_deps, st)[i].name, LocalVersion)]
    \o SelectSeq(resolved_packages,
                 LAMBDA pkg : pkg.name \notin Keys(local_packages(current_deps)))

\* "if not path.exists(): raise FileNotFoundError" of a requested path
MissingRequest(packages, st) ==
    \E i \in DOMAIN packages :
        IsLocal(packages[i]) /\ packages[i].specifier.ver \notin st.paths

\* current_ownership: function name -> the package of the previous lockfile
\* that lists it (the last one, should several list it)
current_ownership(previous_packages) ==
    PutAll(<<>>, Flatten([i \in DOMAIN previous_packages |->
        [j \in DOMAIN previous_packages[i].functions |->
            [name |-> previous_packages[i].functions[j],
             owner |-> previous_packages[i].name]]]))

\* dict.get on current_ownership
Owner(ownership, fname) ==
    IF fname \in Keys(ownership) THEN Get(ownership, fname).owner ELSE "None"

\* resolutions.get(name, {})
ResolutionsFor(resolutions, n) ==
    IF n \in DOMAIN resolutions THEN resolutions[n] ELSE <<>>

\* a package's functions under their new names; the unchanged dict when the
\* package has no resolutions
keep_names(functions, pkg_resolutions) == functions

apply_resolutions(functions, pkg_resolutions) ==
    IF DOMAIN pkg_resolutions = {} THEN functions
    ELSE PutAll(<<>>, [i \in DOMAIN functions |->
            Function(IF InMap(pkg_resolutions, functions[i].name)
                     THEN pkg_resolutions[functions[i].name]
                     ELSE functions[i].name,
                     functions[i].definition)])

\* a batch check that would find nothing
NoBatchConflict(fname, n, new_functions_map) == FALSE

\* "check against existing sheet functions"
ExistingConflict(fname, n, existing_func_names, ownership) ==
    fname \in existing_func_names /\ Owner(ownership, fname) # n

\* "check against other packages in this batch"
BatchConflict(fname, n, new_functions_map) ==
    fname \in Keys(new_functions_map) /\ Get(new_functions_map, fname).owner # n

\* a check that stops recording at the first conflict of the package
RECURSIVE first_conflict_only(_, _, _, _, _, _)
first_conflict_only(fnames, n, existing_func_names, ownership, new_functions_map, conflicts) ==
    IF fnames = <<>>
    THEN [conflicts |-> conflicts, new_functions_map |-> new_functions_map]
    ELSE LET fname == Head(fnames)
             found == \/ ExistingConflict(fname, n, existing_func_names, ownership)
                      \/ BatchConflict(fname, n, new_functions_map)
         IN  first_conflict_only(Tail(fnames), n, existing_func_names, ownership,
                                 Put(new_functions_map, [name |-> fname, owner |-> n]),
                                 IF found /\ conflicts = <<>> THEN <<fname>>
                                 ELSE conflicts)

\* "for fname in functions": the conflicts of one package
RECURSIVE check_collisions(_, _, _, _, _, _)
check_collisions(fnames, n, existing_func_names, ownership, new_functions_map, conflicts) ==
    IF fnames = <<>>
    THEN [conflicts |-> conflicts, new_functions_map |-> new_functions_map]
    ELSE LET fname == Head(fnames)
             c1 == IF ExistingConflict(fname, n, existing_func_names, ownership)
                   THEN <<fname>> ELSE <<>>
             c2 == IF BatchConflict(fname, n, new_functions_map)
                   THEN <<fname>> ELSE <<>>
         IN  check_collisions(Tail(fnames), n, existing_func_names, ownership,
                              Put(new_functions_map, [name |-> fname, owner |-> n]),
                              conflicts \o c1 \o c2)

\* phase 1, "for pkg_info in packages_to_install": processed_packages, or the
\* CollisionError of the first package with conflicts
RECURSIVE phase1(_, _, _, _, _, _)
phase1(pkgs, resolutions, existing_func_names, ownership, new_functions_map, processed) ==
    IF pkgs = <<>>
    THEN [error |-> "", name |-> "", conflicts |-> <<>>,
          processed_packages |-> processed]
    ELSE LET pkg == Head(pkgs)
             functions == apply_resolutions(extract_package(pkg.name, pkg.version),
                                            ResolutionsFor(resolutions, pkg.name))
             r == check_collisions(KeySeq(functions), pkg.name, existing_func_names,
                                   ownership, new_functions_map, <<>>)
         IN  IF r.conflicts # <<>>
             THEN [error |-> "CollisionError", name |-> pkg.name,
                   conflicts |-> r.conflicts,
                   processed_packages |-> processed]
             ELSE phase1(Tail(pkgs), resolutions, existing_func_names, ownership,
                         r.new_functions_map,
                         Append(processed,
                                [name |-> pkg.name, version |-> pkg.version,
                                 functions |-> functions]))

\* the Refactorer's rename_map for a package: a function name n is the
\* one-character text <<n>>
RenameMapText(pkg_resolutions) ==
    [k \in {<<n>> : n \in DOMAIN pkg_resolutions} |-> <<pkg_resolutions[k[1]]>>]

\* "if pkg_resolutions": every definition of the package through the
\* Refactorer; [status, functions]
refactor_functions(functions, pkg_resolutions) ==
    IF DOMAIN pkg_resolutions = {}
    THEN [status |-> "ok", functions |-> functions]
    ELSE With([i \in DOMAIN functions |->
                  refactor(RenameMapText(pkg_resolutions), functions[i].definition)],
              LAMBDA r :
                IF \E i \in DOMAIN r : r[i].status # "ok"
                THEN [status |-> "AttributeError", functions |-> <<>>]
                ELSE [status |-> "ok",
                      functions |-> [i \in DOMAIN functions |->
                                        Function(functions[i].name, r[i].text)]])

\* phase 2, "for pkg_info in processed_packages": the new lockfile and
\* all_functions, or the exception of a rewrite
RECURSIVE phase2(_, _, _, _)
phase2(processed_packages, resolutions, packages, all_functions) ==
    IF processed_packages = <<>>
    THEN [error |-> "", packages |-> packages, all_functions |-> all_functions]
    ELSE LET pkg_info == Head(processed_packages) IN
         With(refactor_functions(pkg_info.functions,
                                 ResolutionsFor(resolutions, pkg_info.name)),
              LAMBDA r :
                IF r.status # "ok"
                THEN [error |-> r.status, packages |-> packages,
                      all_functions |-> all_functions]
                ELSE phase2(Tail(processed_packages), resolutions,
                            Put(packages,
                                PackageLock(pkg_info.name, pkg_info.version,
                                    archive_dependencies(pkg_info),
                                    KeySeq(r.functions))),
                            PutAll(all_functions, r.functions)))

\* project_metadata.get("dependencies", []), {} when __GSPROJECT__ is missing
ProjectDependencies(st) ==
    IF st.project.present THEN st.project.dependencies ELSE <<>>

\* previous_lock.packages if previous_lock else {}
LockPackages(st) == IF st.lockfile.present THEN st.lockfile.packages ELSE <<>>

\* "5. update sheet" and "6. update project metadata": the writes, in order
install_writes(current_deps, packages, all_functions, st) ==
    LET previous_functions ==
            Flatten([i \in DOMAIN LockPackages(st) |-> LockPackages(st)[i].functions])
        stale == SelectSeq(previous_functions, LAMBDA f : f \notin Keys(all_functions))
    IN  <<set_project_metadata(current_deps), set_lockfile(packages)>>
        \o [i \in DOMAIN stale |-> delete_function(stale[i])]
        \o [i \in DOMAIN all_functions |->
               IF all_functions[i].name \in NamedFunctions(st)
               THEN update_function(all_functions[i])
               ELSE create_function(all_functions[i])]
        \o <<set_project_metadata(current_deps)>>

\* an install that would save the merged dependencies before it looks for
\* collisions
install_saving_first(packages, resolutions, st) ==
    With(MergeDependencies(ProjectDependencies(st), packages), LAMBDA current_deps :
    With(resolve(World, requirements_of(current_deps)), LAMBDA resolved :
    With(phase1(packages_to_install(current_deps, resolved.packages, st),
                resolutions, NamedFunctions(st),
                current_ownership(LockPackages(st)), <<>>, <<>>), LAMBDA p1 :
    With(phase2(p1.processed_packages, resolutions, <<>>, <<>>), LAMBDA p2 :
        IF MissingRequest(packages, st) THEN Raise("FileNotFoundError")
        ELSE IF resolved.status # "ok" THEN Raise(resolved.status)
        ELSE IF p1.error # ""
        THEN [Plan(<<set_project_metadata(current_deps)>>, p1.error)
                 EXCEPT !.name = p1.name, !.conflicts = p1.conflicts]
        ELSE IF p2.error # ""
        THEN Plan(<<set_project_metadata(current_deps)>>, p2.error)
        ELSE Plan(install_writes(current_deps, p2.packages, p2.all_functions, st),
                  "ok")))))

\* InstallService.install
install(packages, resolutions, st) ==
    With(MergeDependencies(ProjectDependencies(st), packages), LAMBDA current_deps :
    With(resolve(World, requirements_of(current_deps)), LAMBDA resolved :
    With(phase1(packages_to_install(current_deps, resolved.packages, st),
                resolutions, NamedFunctions(st),
                current_ownership(LockPackages(st)), <<>>, <<>>), LAMBDA p1 :
    With(phase2(p1.processed_packages, resolutions, <<>>, <<>>), LAMBDA p2 :
        IF MissingRequest(packages, st) THEN Raise("FileNotFoundError")
        ELSE IF resolved.status # "ok" THEN Raise(resolved.status)
        ELSE IF p1.error # ""
        THEN [Raise(p1.error) EXCEPT !.name = p1.name, !.conflicts = p1.conflicts]
        ELSE IF p2.error # "" THEN Raise(p2.error)
        ELSE Plan(install_writes(current_deps, p2.packages, p2.all_functions, st),
                  "ok")))))

(***************************************************************************)
(* UpgradeService.upgrade                                                  *)
(***************************************************************************)
\* _get_package_version: 0 stands for None
get_package_version(package_name, packages) ==
    IF package_name \in Keys(packages) THEN Get(packages, package_name).version ELSE 0

\* "7. download and extract packages": new_lockfile and all_functions
RECURSIVE upgrade_extract(_, _, _)
upgrade_extract(resolved_packages, packages, all_functions) ==
    IF resolved_packages = <<>>
    THEN [packages |-> packages, all_functions |-> all_functions]
    ELSE LET pkg == Head(resolved_packages)
             funcs == extract_package(pkg.name, pkg.version)
         IN  upgrade_extract(Tail(resolved_packages),
                             Put(packages, PackageLock(pkg.name, pkg.version, <<>>,
                                                       KeySeq(funcs))),
                             PutAll(all_functions, funcs))

\* "8. update functions in sheet": create_function takes one argument and is
\* called with two, so the loop ends in a TypeError at the first function,
\* after the delete_function of a function the sheet has.  Without functions
\* the loop is skipped and "9." saves new_lockfile.
upgrade_writes(packages, all_functions, st) ==
    IF all_functions = <<>>
    THEN Plan(<<set_lockfile(packages)>>, "ok")
    ELSE Plan(IF all_functions[1].name \in NamedFunctions(st)
              THEN <<delete_function(all_functions[1].name)>> ELSE <<>>,
              "TypeError")

upgrade(packages, st) ==
    LET old_packages == LockPackages(st)
        packages_to_upgrade ==
            IF packages # <<>> THEN packages ELSE KeySeq(old_packages)
        deps == [i \in DOMAIN packages_to_upgrade |->
                    Dependency(packages_to_upgrade[i], AnySpec)]
        upgrades(resolved_packages) ==
            {i \in DOMAIN resolved_packages :
                LET old_version == get_package_version(resolved_packages[i].name,
                                                       old_packages)
                IN  old_version # 0 /\ old_version # resolved_packages[i].version}
    IN  IF ~st.project.present THEN Raise("ValueError")
        ELSE IF \E i \in DOMAIN packages_to_upgrade :
                   packages_to_upgrade[i] \notin Keys(old_packages)
        THEN Raise("ValueError")
        ELSE With(resolve(World, deps), LAMBDA resolved :
                IF resolved.status # "ok" THEN Raise(resolved.status)
                ELSE IF upgrades(resolved.packages) = {} THEN Plan(<<>>, "ok")
                ELSE With(upgrade_extract(resolved.packages, <<>>, <<>>), LAMBDA x :
                        upgrade_writes(x.packages, x.all_functions, st)))

(***************************************************************************)
(* RemoveService.remove                                                    *)
(***************************************************************************)
\* the operators "=" can be found in
HasEquals(specifier) == specifier.op \in {"==", ">=", "<=", "!=", "~="}

\* the requirement string of the project's dependency list: "A", "A>=1.0.0"
RequirementString(dep) ==
    IF dep.specifier = AnySpec THEN dep.name
    ELSE dep.name \o dep.specifier.op \o VersionDigits[dep.specifier.ver] \o ".0.0"

\* dep.split("=")[0].split(">")[0].split("<")[0] of a requirement string with
\* a specifier: what stands before the first "=", ">" or "<"
SplitName(dep) ==
    CASE dep.specifier.op = "!=" -> dep.name \o "!"
      [] dep.specifier.op = "~=" -> dep.name \o "~"
      [] OTHER -> dep.name

\* "3. validate packages exist and resolve names": dep_name of a requirement
\* string (split only when it holds "=") equals pkg_input
MatchesName(dep, pkg_input) ==
    pkg_input = (IF IsLocal(dep) THEN dep.name
                 ELSE IF HasEquals(dep.specifier) THEN SplitName(dep)
                 ELSE RequirementString(dep))

\* dep == pkg or dep.startswith(pkg + "=")
IsRemoved(dep, pkgs) ==
    \E pkg \in pkgs :
        /\ dep.name = pkg
        /\ dep.specifier = AnySpec \/ dep.specifier.op = "==" \/ IsLocal(dep)

\* the names the dependencies of a lockfile entry parse to
DependencyNamesOf(entry) ==
    {entry.dependencies[k].name : k \in DOMAIN entry.dependencies}

\* "trace transitive dependencies using lockfile": iterate until stable
RECURSIVE packages_to_keep(_, _)
packages_to_keep(packages, keep) ==
    LET more == UNION {DependencyNamesOf(packages[i]) :
                          i \in {j \in DOMAIN packages : packages[j].name \in keep}}
    IN  IF more \subseteq keep THEN keep
        ELSE packages_to_keep(packages, keep \cup more)

\* remove(self, packages, force=False): the body never reads force, so the
\* operator stands for the call with either value
remove(packages, st) ==
    LET current_deps == ProjectDependencies(st)
        lock_packages == LockPackages(st)
        found(pkg_input) ==
            \E i \in DOMAIN current_deps : MatchesName(current_deps[i], pkg_input)
        new_deps == SelectSeq(current_deps, LAMBDA dep : ~IsRemoved(dep, Range(packages)))
        keep == packages_to_keep(lock_packages,
                                 {SplitName(new_deps[i]) : i \in DOMAIN new_deps})
        packages_to_remove == SelectSeq(lock_packages, LAMBDA e : e.name \notin keep)
        deletes == Flatten([i \in DOMAIN packages_to_remove |->
                      [j \in DOMAIN packages_to_remove[i].functions |->
                          delete_function(packages_to_remove[i].functions[j])]])
    IN  IF ~st.project.present THEN Raise("ValueError")
        ELSE IF \E i \in DOMAIN packages : ~found(packages[i]) THEN Raise("ValueError")
        ELSE Plan(deletes \o <<set_project_metadata(new_deps),
                               set_lockfile(SelectSeq(lock_packages,
                                                LAMBDA e : e.name \in keep))>>,
                  "ok")

(***************************************************************************)
(* The services against one sheet: a call reads the sheet and decides its  *)
(* writes in one step; each write is then one step, and may fail.          *)
(***************************************************************************)
InstallChoices ==
    { <<Dependency("A", AnySpec)>>,
      <<Dependency("A", Specifier("==", 1))>>,
      <<Dependency("B", AnySpec)>>,
      <<Dependency("C", Specifier("==", 1))>>,
      <<Dependency("A", Specifier("==", 1)), Dependency("B", AnySpec)>>,
      <<Dependency("A", Specifier(">=", 1)), Dependency("B", AnySpec)>>,
      <<Dependency("A", Specifier("!=", 1)), Dependency("C", Specifier("==", 1))>>,
      <<Dependency("D", AnySpec)>>,
      <<Dependency("E", AnySpec)>>,
      <<LocalDependency(LocalName(1), 1)>> }

ResolutionChoices ==
    { <<>>,
      [n \in {"B"} |-> [f \in {"G"} |-> "H"]],
      [n \in {"A"} |-> [f \in {"F"} |-> "G"]],
      [n \in {"L"} |-> [f \in {"H"} |-> "K"]] }

UpgradeChoices == {<<>>, <<"A">>, <<"B">>, <<"C">>}
RemoveChoices == {<<"A">>, <<"B">>, <<"C">>}
UserFunctions == {"F", "G", "H"}

Ended(plan) == IF plan.then = "ok" THEN "ok" ELSE "failed"

\* no call is running, and the bound on calls is not reached
CanBegin == svc.status # "writing" /\ nops < MaxOps

Begin(kind, packages, resolutions, plan) ==
    /\ nops' = nops + 1
    /\ pre' = Snapshot(sheet, project, lockfile)
    /\ issued' = 0
    /\ pending' = plan
    /\ svc' = [kind |-> kind,
               status |-> IF plan.writes # <<>> THEN "writing" ELSE Ended(plan),
               error |-> IF plan.writes = <<>> /\ plan.then # "ok"
                         THEN plan.then ELSE "",
               packages |-> packages, resolutions |-> resolutions,
               name |-> plan.name, conflicts |-> plan.conflicts]
    /\ UNCHANGED <<sheet, project, lockfile, paths>>
    /\ UNCHANGED <<fvars, rvars, dvars, mvars>>

Install(packages, resolutions) ==
    /\ CanBegin
    /\ \E plan \in {install(packages, resolutions, Snapshot(sheet, project, lockfile))} :
        Begin("install", packages, resolutions, plan)

Upgrade(packages) ==
    /\ CanBegin
    /\ \E plan \in {upgrade(packages, Snapshot(sheet, project, lockfile))} :
        Begin("upgrade", packages, <<>>, plan)

Remove(packages) ==
    /\ CanBegin
    /\ \E plan \in {remove(packages, Snapshot(sheet, project, lockfile))} :
        Begin("remove", packages, <<>>, plan)

\* the sheet after a named function is removed / saved
WithoutFunction(sh, n) == {f \in sh : f.name # n}
WithFunction(sh, func) == WithoutFunction(sh, func.name) \cup {func}

\* the name of the named function a create, update or delete is about
Written(w) ==
    CASE w.fn = "delete_function" -> w.name
      [] w.fn \in {"create_function", "update_function"} -> w.function.name
      [] OTHER -> ""

\* the next write of the call goes through. The project metadata and the
\* lockfile are the named functions __GSPROJECT__ and __LOCK__: a function
\* written under one of these names replaces it (it then no longer parses,
\* and reads back as absent), a delete removes it.
StoreWrite ==
    /\ svc.status = "writing"
    /\ LET w == Head(pending.writes)
           rest == Tail(pending.writes)
       IN  /\ sheet' = CASE w.fn = "delete_function" -> WithoutFunction(sheet, w.name)
                         [] w.fn \in {"create_function", "update_function"} ->
                                WithFunction(sheet, w.function)
                         [] w.fn = "set_project_metadata" ->
                                WithoutFunction(sheet, PROJECT_NAME)
                         [] w.fn = "set_lockfile" -> WithoutFunction(sheet, LOCK_NAME)
           /\ project' = CASE w.fn = "set_project_metadata" ->
                                [present |-> TRUE, dependencies |-> w.dependencies]
                           [] Written(w) = PROJECT_NAME -> NoProject
                           [] OTHER -> project
           /\ lockfile' = CASE w.fn = "set_lockfile" ->
                                [present |-> TRUE, packages |-> w.packages]
                            [] Written(w) = LOCK_NAME -> NoLockfile
                            [] OTHER -> lockfile
           /\ pending' = [pending EXCEPT !.writes = rest]
           /\ svc' = IF rest # <<>> THEN svc
                     ELSE [svc EXCEPT !.status = Ended(pending),
                                      !.error = IF pending.then = "ok" THEN ""
                                                ELSE pending.then]
    /\ issued' = issued + 1
    /\ UNCHANGED <<pre, nops, paths>>
    /\ UNCHANGED <<fvars, rvars, dvars, mvars>>

\* the next write of the call raises (a Playwright timeout, a lost page)
StoreFail ==
    /\ svc.status = "writing"
    /\ svc' = [svc EXCEPT !.status = "failed", !.error = "StoreError"]
    /\ pending' = [pending EXCEPT !.writes = <<>>, !.then = "StoreError"]
    /\ issued' = issued + 1
    /\ UNCHANGED <<sheet, project, lockfile, pre, nops, paths>>
    /\ UNCHANGED <<fvars, rvars, dvars, mvars>>

\* the user adds a named function by hand
UserCreate(n) ==
    /\ svc.status # "writing"
    /\ n \notin {f.name : f \in sheet}
    /\ sheet' = sheet \cup {Function(n, <<"1">>)}
    /\ UNCHANGED <<project, lockfile, svc, pending, pre, issued, nops, paths>>
    /\ UNCHANGED <<fvars, rvars, dvars, mvars>>

\* the user deletes or moves the directory of a local package
PathRemoved(path) ==
    /\ svc.status # "writing"
    /\ path \in paths
    /\ paths' = paths \ {path}
    /\ UNCHANGED <<sheet, project, lockfile, svc, pending, pre, issued, nops>>
    /\ UNCHANGED <<fvars, rvars, dvars, mvars>>

Init == FormulaIdle /\ ResolveIdle /\ ServiceIdle /\ DownloadIdle /\ MetadataIdle

Next ==
    \/ \E packages \in InstallChoices, resolutions \in ResolutionChoices :
          Install(packages, resolutions)
    \/ \E packages \in UpgradeChoices : Upgrade(packages)
    \/ \E packages \in RemoveChoices : Remove(packages)
    \/ StoreWrite
    \/ StoreFail
    \/ \E n \in UserFunctions : UserCreate(n)
    \/ \E path \in LocalPaths : PathRemoved(path)

Spec == Init /\ [][Next]_vars

FormulaInit == FormulaIdle /\ ResolveIdle /\ ServiceIdle /\ DownloadIdle /\ MetadataIdle

SpecFormula == FormulaInit /\ [][FormulaNext]_vars

(***************************************************************************)
(* InstallService.install, "4. download, extract": the downloads run in    *)
(* executor threads, one step of one thread at a time; the install waits   *)
(* in asyncio.gather. The file of an artifact is "absent", "partial" (open *)
(* for writing or left so) or "complete".                                  *)
(***************************************************************************)
\* LocalCache.has_artifact: the path exists
has_artifact(files, n) == files[n] # "absent"

\* "determine which packages need downloading"
packages_to_download(files, batch) == {n \in batch : ~has_artifact(files, n)}

\* a gather that would wait for every task and raise nothing
gather_return_exceptions(t) ==
    IF \E n \in Artifacts : t[n] \in {"submitted", "writing"} THEN "pending"
    ELSE "return"

\* await asyncio.gather(*download_tasks): raises the first exception of a
\* task at once, returns when every task is done
gather(t) ==
    IF \E n \in Artifacts : t[n] = "failed" THEN "raise"
    ELSE IF \E n \in Artifacts : t[n] \in {"submitted", "writing"} THEN "pending"
    ELSE "return"

\* Packager.extract_package of every artifact of the batch: zipfile.ZipFile
\* raises BadZipFile on a file that was not written to its end
extract_all(files, batch) ==
    IF \E n \in batch : files[n] # "complete" THEN "BadZipFile" ELSE "ok"

\* the threads of an install are joined before its process ends
NoThread == \A n \in Artifacts : tasks[n] \notin {"submitted", "writing"}

\* install is called: cache lookups, then the downloads are submitted
InstallBegin(batch) ==
    /\ inst.status \in {"idle", "ok", "failed"}
    /\ NoThread
    /\ ninst < MaxInstalls
    /\ ninst' = ninst + 1
    /\ tasks' = [n \in Artifacts |->
                    IF n \in packages_to_download(cache, batch)
                    THEN "submitted" ELSE "none"]
    /\ inst' = [status |-> IF packages_to_download(cache, batch) = {}
                           THEN "extracting" ELSE "gathering",
                batch |-> batch,
                skipped |-> batch \ packages_to_download(cache, batch),
                error |-> "", checks |-> 0, writes |-> 0]
    /\ UNCHANGED cache
    /\ UNCHANGED <<fvars, rvars, svars, mvars>>

\* download_package: the request is refused (raise_for_status)
DownloadRefused(n) ==
    /\ tasks[n] = "submitted"
    /\ tasks' = [tasks EXCEPT ![n] = "failed"]
    /\ UNCHANGED <<cache, inst, ninst>>
    /\ UNCHANGED <<fvars, rvars, svars, mvars>>

\* download_with_progress: open(target_path, "wb")
DownloadOpen(n) ==
    /\ tasks[n] = "submitted"
    /\ tasks' = [tasks EXCEPT ![n] = "writing"]
    /\ cache' = [cache EXCEPT ![n] = "partial"]
    /\ UNCHANGED <<inst, ninst>>
    /\ UNCHANGED <<fvars, rvars, svars, mvars>>

\* the last chunk is written and the file closed
DownloadFinish(n) ==
    /\ tasks[n] = "writing"
    /\ tasks' = [tasks EXCEPT ![n] = "done"]
    /\ cache' = [cache EXCEPT ![n] = "complete"]
    /\ UNCHANGED <<inst, ninst>>
    /\ UNCHANGED <<fvars, rvars, svars, mvars>>

\* response.iter_bytes raises in mid-stream: the file stays as written
DownloadBreak(n) ==
    /\ tasks[n] = "writing"
    /\ tasks' = [tasks EXCEPT ![n] = "failed"]
    /\ UNCHANGED <<cache, inst, ninst>>
    /\ UNCHANGED <<fvars, rvars, svars, mvars>>

\* asyncio.gather resumes the install
GatherEnds ==
    /\ inst.status = "gathering"
    /\ gather(tasks) # "pending"
    /\ inst' = IF gather(tasks) = "raise"
               THEN [inst EXCEPT !.status = "failed", !.error = "DownloadError"]
               ELSE [inst EXCEPT !.status = "extracting"]
    /\ UNCHANGED <<cache, tasks, ninst>>
    /\ UNCHANGED <<fvars, rvars, svars, mvars>>

\* phase 1: extraction and collision detection of the batch
CollisionCheck ==
    /\ inst.status = "extracting"
    /\ \/ /\ extract_all(cache, inst.batch) # "ok"
          /\ inst' = [inst EXCEPT !.status = "failed",
                                  !.error = extract_all(cache, inst.batch)]
       \/ /\ extract_all(cache, inst.batch) = "ok"
          /\ \E found \in BOOLEAN :
                inst' = [inst EXCEPT !.checks = 1,
                                     !.status = IF found THEN "failed" ELSE "writing",
                                     !.error = IF found THEN "CollisionError" ELSE ""]
    /\ UNCHANGED <<cache, tasks, ninst>>
    /\ UNCHANGED <<fvars, rvars, svars, mvars>>

\* "5. update sheet": set_project_metadata, set_lockfile, then the functions
SheetWrite ==
    /\ inst.status = "writing"
    /\ inst' = [inst EXCEPT !.writes = inst.writes + 1,
                            !.status = IF inst.writes + 1 = 3 THEN "ok" ELSE "writing"]
    /\ UNCHANGED <<cache, tasks, ninst>>
    /\ UNCHANGED <<fvars, rvars, svars, mvars>>

DownloadInit == FormulaIdle /\ ResolveIdle /\ ServiceIdle /\ DownloadIdle /\ MetadataIdle

DownloadNext ==
    \/ \E batch \in (SUBSET Artifacts) \ {{}} : InstallBegin(batch)
    \/ \E n \in Artifacts : DownloadRefused(n)
    \/ \E n \in Artifacts : DownloadOpen(n)
    \/ \E n \in Artifacts : DownloadFinish(n)
    \/ \E n \in Artifacts : DownloadBreak(n)
    \/ GatherEnds
    \/ CollisionCheck
    \/ SheetWrite

SpecDownload == DownloadInit /\ [][DownloadNext]_vars

(***************************************************************************)
(* MetadataManager: __GSPROJECT__ and __LOCK__ as array literals.  A text  *)
(* is a sequence of characters; a word without quote, comma, semicolon or  *)
(* blank in it ("Key", "dependencies") stands as one character.            *)
(***************************************************************************)
\* sep.join(parts)
RECURSIVE join(_, _)
join(sep, parts) ==
    IF parts = <<>> THEN <<>>
    ELSE IF Len(parts) = 1 THEN parts[1]
    ELSE parts[1] \o sep \o join(sep, Tail(parts))

\* s.split(sep) for a one-character sep
RECURSIVE split(_, _)
split(s, sep) ==
    IF \E i \in DOMAIN s : s[i] = sep
    THEN LET i == CHOOSE k \in DOMAIN s :
                      s[k] = sep /\ \A j \in 1..(k - 1) : s[j] # sep
         IN  <<SubSeq(s, 1, i - 1)>> \o split(SubSeq(s, i + 1, Len(s)), sep)
    ELSE <<s>>

\* s.strip()
RECURSIVE strip(_)
strip(s) ==
    IF s # <<>> /\ s[1] = " " THEN strip(Tail(s))
    ELSE IF s # <<>> /\ s[Len(s)] = " " THEN strip(SubSeq(s, 1, Len(s) - 1))
    ELSE s

\* [d.strip() for d in val.split(",") if d.strip()]
split_list(val) ==
    LET parts == split(val, ",")
    IN  SelectSeq([i \in DOMAIN parts |-> strip(parts[i])], LAMBDA d : d # <<>>)

\* _format_array_literal: each cell quoted, a quote in it doubled
escape_quotes(col) ==
    Flatten([i \in DOMAIN col |->
                IF col[i] = Quote THEN <<Quote, Quote>> ELSE <<col[i]>>])
format_array_literal(rows) ==
    <<"=", "{">>
    \o join(<<";">>,
            [r \in DOMAIN rows |->
                join(<<",">>, [c \in DOMAIN rows[r] |->
                                 <<Quote>> \o escape_quotes(rows[r][c]) \o <<Quote>>])])
    \o <<"}">>

\* one turn of the loop of _parse_array_literal, at 1-based position i; skip
\* stands for the extra "i += 1" after a doubled quote
parse_step(content, i, st) ==
    LET char == content[i] IN
    IF st.skip THEN [st EXCEPT !.skip = FALSE]
    ELSE IF char = Quote /\ ~st.in_quote THEN [st EXCEPT !.in_quote = TRUE]
    ELSE IF char = Quote
    THEN IF i + 1 <= Len(content) /\ content[i + 1] = Quote
         THEN [st EXCEPT !.current_token = Append(@, Quote), !.skip = TRUE]
         ELSE [st EXCEPT !.in_quote = FALSE]
    ELSE IF char = "," /\ ~st.in_quote
    THEN [st EXCEPT !.current_row = Append(@, st.current_token),
                    !.current_token = <<>>]
    ELSE IF char = ";" /\ ~st.in_quote
    THEN [st EXCEPT !.rows = Append(@, Append(st.current_row, st.current_token)),
                    !.current_row = <<>>,
                    !.current_token = <<>>]
    ELSE IF st.in_quote THEN [st EXCEPT !.current_token = Append(@, char)]
    ELSE st

\* the turns for positions lo..hi in their order, the first half first
RECURSIVE parse_loop(_, _, _, _)
parse_loop(content, lo, hi, st) ==
    IF lo > hi THEN st
    ELSE IF lo = hi THEN parse_step(content, lo, st)
    ELSE With(parse_loop(content, lo, (lo + hi) \div 2, st),
              LAMBDA half : parse_loop(content, (lo + hi) \div 2 + 1, hi, half))

\* the loop, then "append last token/row"
parse_content(content) ==
    With(parse_loop(content, 1, Len(content),
                    [rows |-> <<>>, current_row |-> <<>>, current_token |-> <<>>,
                     in_quote |-> FALSE, skip |-> FALSE]),
         LAMBDA st :
            IF st.current_token # <<>> \/ st.current_row # <<>>
            THEN Append(st.rows, Append(st.current_row, st.current_token))
            ELSE st.rows)

parse_array_literal(definition) ==
    LET d == strip(definition) IN
    IF Len(d) >= 2 /\ SubSeq(d, 1, 2) = <<"=", "{">> /\ d[Len(d)] = "}"
    THEN parse_content(SubSeq(d, 3, Len(d) - 1))
    ELSE <<>>

\* the definition set_project_metadata stores under __GSPROJECT__
project_definition(metadata) ==
    format_array_literal(
        << <<<<"Key">>, <<"Value">>>>,
           <<<<"name">>, metadata.name>>,
           <<<<"version">>, metadata.version>>,
           <<<<"description">>, metadata.description>>,
           <<<<"dependencies">>, join(<<",">>, metadata.dependencies)>> >>)

\* the definition set_lockfile stores under __LOCK__
lockfile_definition(packages) ==
    format_array_literal(
        << <<<<"Package">>, <<"Version">>, <<"Resolved">>, <<"Integrity">>,
             <<"Dependencies">>, <<"Functions">>>> >>
        \o [i \in DOMAIN packages |->
               <<packages[i].name, packages[i].version, <<>>, <<>>,
                 join(<<",">>, packages[i].dependencies),
                 join(<<",">>, packages[i].functions)>>])

\* _parse_project_metadata, its "dependencies"; a stored definition starts
\* with ={ and so is never taken for the legacy JSON form
parse_project_metadata(funcs) ==
    IF funcs.project = NotSet THEN <<>>
    ELSE LET rows == parse_array_literal(funcs.project)
             found == {i \in 2..Len(rows) :
                          Len(rows[i]) >= 2 /\ rows[i][1] = <<"dependencies">>}
         IN  IF Len(rows) < 2 \/ found = {} THEN <<>>
             ELSE split_list(rows[CHOOSE i \in found : \A j \in found : j <= i][2])

\* _parse_lockfile: the entries, <<>> for None
lock_entry(row) ==
    [name |-> row[1], version |-> row[2],
     dependencies |-> split_list(IF Len(row) > 4 THEN row[5] ELSE <<>>),
     functions |-> split_list(IF Len(row) > 5 THEN row[6] ELSE <<>>)]
parse_lockfile(funcs) ==
    IF funcs.lock = NotSet THEN <<>>
    ELSE LET rows == parse_array_literal(funcs.lock)
             data == SelectSeq(Tail(rows), LAMBDA row : Len(row) >= 2)
         IN  IF rows = <<>> THEN <<>>
             ELSE PutAll(<<>>, [i \in DOMAIN data |-> lock_entry(data[i])])

\* requirement strings: a name, then the specifier as written
Requirements ==
    { <<"a">>, <<"b", ">", "1">>, <<"b", ">", "1", ",", "<", "2">> }
OwnedNames == {<<"F">>, <<"G">>}

\* the project gains a dependency
AddDependency(r) ==
    /\ meta.phase = "editing"
    /\ Len(meta.dependencies) < MaxDeps
    /\ meta' = [meta EXCEPT !.dependencies = Append(@, r)]
    /\ UNCHANGED <<fvars, rvars, svars, dvars>>

\* the locked package gains a declared dependency
AddLockDependency(r) ==
    /\ meta.phase = "editing"
    /\ Len(meta.packages[1].dependencies) < MaxDeps
    /\ meta' = [meta EXCEPT !.packages[1].dependencies = Append(@, r)]
    /\ UNCHANGED <<fvars, rvars, svars, dvars>>

\* the locked package gains an owned function
AddLockFunction(f) ==
    /\ meta.phase = "editing"
    /\ f \notin Range(meta.packages[1].functions)
    /\ meta' = [meta EXCEPT !.packages[1].functions = Append(@, f)]
    /\ UNCHANGED <<fvars, rvars, svars, dvars>>

SetProjectMetadata ==
    /\ meta.phase = "editing"
    /\ meta' = [meta EXCEPT
                   !.phase = "project saved",
                   !.funcs.project =
                       project_definition([name |-> <<"p">>, version |-> <<"1">>,
                                           description |-> <<>>,
                                           dependencies |-> meta.dependencies])]
    /\ UNCHANGED <<fvars, rvars, svars, dvars>>

SetLockfile ==
    /\ meta.phase = "project saved"
    /\ meta' = [meta EXCEPT !.phase = "saved",
                            !.funcs.lock = lockfile_definition(meta.packages)]
    /\ UNCHANGED <<fvars, rvars, svars, dvars>>

GetAllMetadata ==
    /\ meta.phase = "saved"
    /\ meta' = [meta EXCEPT !.phase = "read",
                            !.got = [dependencies |-> parse_project_metadata(meta.funcs),
                                     packages |-> parse_lockfile(meta.funcs)]]
    /\ UNCHANGED <<fvars, rvars, svars, dvars>>

MetadataInit == FormulaIdle /\ ResolveIdle /\ ServiceIdle /\ DownloadIdle /\ MetadataIdle

MetadataNext ==
    \/ \E r \in Requirements : AddDependency(r)
    \/ \E r \in Requirements : AddLockDependency(r)
    \/ \E f \in OwnedNames : AddLockFunction(f)
    \/ SetProjectMetadata
    \/ SetLockfile
    \/ GetAllMetadata

SpecMetadata == MetadataInit /\ [][MetadataNext]_vars

(***************************************************************************)
(* Properties of the tokenizer and the refactorer, under SpecFormula        *)
(***************************************************************************)
\* C7: for every input text, malformed fragments included, tokenize ends and
\* the token texts concatenated in order are exactly the input.
C7_Lossless ==
    fphase = "ran" =>
        /\ reconstruct(toks) = formula
        /\ \A k \in DOMAIN toks : toks[k].value # <<>>

\* an unterminated string literal and a character no pattern matches were tokenized
C7_Witness ==
    /\ fphase = "ran"
    /\ Len(formula) = MaxAtoms
    /\ formula[1] = Quote
    /\ Quote \notin Range(Tail(formula))
    /\ \E k \in DOMAIN toks : toks[k].type = "UNKNOWN"

\* C8: with the empty rename map refactor returns its input unchanged, for
\* every text, a call with no closing parenthesis included.
C8_EmptyMapIdentity ==
    (fphase = "ran" /\ rmap = <<>>) => out = [status |-> "ok", text |-> formula]

\* C9: refactor returns a text without raising for every input and map, and
\* when nothing is renamed no token of the input is lost.
C9_NeverRaises ==
    fphase = "ran" =>
        /\ out.status = "ok"
        /\ (\A k \in DOMAIN toks : ~InMap(rmap, toks[k].value))
              => out.text = formula

\* the parentheses of text s are matched
RECURSIVE Depths(_, _)
Depths(s, d) ==
    IF s = <<>> THEN <<d>>
    ELSE <<d>> \o Depths(Tail(s), CASE Head(s) = "(" -> d + 1
                                     [] Head(s) = ")" -> d - 1
                                     [] OTHER -> d)
Balanced(s) ==
    LET ds == Depths(s, 0) IN ds[Len(ds)] = 0 /\ \A k \in DOMAIN ds : ds[k] >= 0

\* C10: in LAMBDA(e, expr) the LAMBDA name, the parameter and every
\* occurrence of the parameter inside expr come out unchanged, whatever expr
\* contains; the same name after the call is replaced by its alias.
C10_LambdaScope ==
    (/\ fphase = "ran"
     /\ wrap = "LAMBDA"
     /\ inner # <<>>
     /\ Balanced(inner)
     /\ Quote \notin Range(inner)
     /\ out.status = "ok")
    => LET call == Formula("LAMBDA", inner, <<>>)
       IN  /\ Len(out.text) >= Len(call)
           /\ SubSeq(out.text, 1, Len(call)) = call
           /\ (tail = Param /\ InMap(rmap, Param))
                 => out.text = call \o rmap[Param]

\* the text starts with the text of the call
StartsWith(text, call) ==
    Len(text) >= Len(call) /\ SubSeq(text, 1, Len(call)) = call

\* C11: in LET(e, 1, expr) the LET name, the declared name and every
\* occurrence of the declared name inside expr come out unchanged, whatever
\* expr contains; in LET(e, value, expr) an occurrence of e in value, which
\* precedes the declaration taking effect, is replaced by its alias while e
\* in expr is not.
C11_LetScope ==
    (/\ fphase = "ran"
     /\ Quote \notin Range(inner)
     /\ out.status = "ok")
    => /\ (/\ wrap = "LET_PAIR"
           /\ inner # <<>>
           /\ Balanced(inner)
           /\ "," \notin Range(inner))
          => StartsWith(out.text, Formula("LET_PAIR", inner, <<>>))
       /\ (/\ wrap = "LET"
           /\ Len(inner) = 3
           /\ inner[2] = ","
           /\ {inner[1], inner[3]} \cap {",", "(", ")"} = {})
          => StartsWith(out.text,
                 LET_NAME \o <<"(">> \o Param \o <<",">>
                 \o (IF <<inner[1]>> = Param /\ InMap(rmap, Param)
                     THEN rmap[Param] ELSE <<inner[1]>>)
                 \o <<",", inner[3], ")">>)

(***************************************************************************)
(* Properties of Resolver.resolve, under SpecResolve                       *)
(***************************************************************************)
\* the requirements a chosen set of packages is under: the roots and the
\* dependencies of the chosen packages
RequirementsOn(reg, rts, pkgs) ==
    Range(rts) \cup UNION {Range(get_dependencies(reg, p)) : p \in pkgs}

Consistent(reg, rts, pkgs) ==
    /\ \A p \in pkgs : p.version \in get_versions(reg, p.name)
    /\ \A p, q \in pkgs : p.name = q.name => p = q
    /\ \A r \in RequirementsOn(reg, rts, pkgs) :
          \E p \in pkgs : p.name = r.name /\ InSpecifierSet(p.version, r.specifier)

Solvable(reg, rts) ==
    \E pkgs \in SUBSET ((DOMAIN reg.versions) \X Versions) :
        Consistent(reg, rts, {Package(c[1], c[2]) : c \in pkgs})

\* C6: whenever a consistent choice exists, resolve returns an assignment; it
\* fails only when every choice has been tried.
C6_FindsSolution ==
    (rout.status # "none" /\ Solvable(registry, roots)) => rout.status = "ok"


\* the packages an install goes through, in order, or why it stops before:
\* packages_to_install of the merged dependency list
Batch(packages, st) ==
    LET current_deps == MergeDependencies(ProjectDependencies(st), packages)
        resolved == resolve(World, requirements_of(current_deps))
    IN  [status |-> IF MissingRequest(packages, st) THEN "FileNotFoundError"
                    ELSE resolved.status,
         packages |-> packages_to_install(current_deps, resolved.packages, st)]

(***************************************************************************)
(* Properties of the services, under Spec                                  *)
(***************************************************************************)
\* the names package P introduces, taken after P's rename map
RenamedNames(P, resolutions) ==
    {IF P.name \in DOMAIN resolutions /\ f.name \in DOMAIN resolutions[P.name]
     THEN resolutions[P.name][f.name] ELSE f.name :
        f \in Range(extract_package(P.name, P.version))}

\* the lockfile lists fname among the functions of the entry of package n
RecordedOwner(st, fname, n) ==
    \E k \in DOMAIN LockPackages(st) :
        /\ LockPackages(st)[k].name = n
        /\ fname \in Range(LockPackages(st)[k].functions)

\* P has a name that exists under another owner, or that another package of
\* the batch introduces
Collides(P, batch, resolutions, st) ==
    \E fname \in RenamedNames(P, resolutions) :
        \/ fname \in NamedFunctions(st) /\ ~RecordedOwner(st, fname, P.name)
        \/ \E Q \in Range(batch) :
              Q.name # P.name /\ fname \in RenamedNames(Q, resolutions)

\* C1: an install whose resolution succeeds raises CollisionError exactly
\* when some package of the batch has a function name, after its rename map,
\* that exists in the sheet under another recorded owner (or none) or that
\* another package of the batch introduces; the error names such a package
\* and only names of that kind, so a package the lockfile records as the
\* owner of all its names raises nothing on its own.
C1_CollisionExactly ==
    (svc.kind = "install" /\ svc.status # "idle") =>
        With(Batch(svc.packages, pre),
             LAMBDA batch :
               batch.status = "ok" =>
                 /\ svc.error = "CollisionError" <=>
                        \E P \in Range(batch.packages) :
                            Collides(P, batch.packages, svc.resolutions, pre)
                 /\ svc.error = "CollisionError" =>
                        \E P \in Range(batch.packages) :
                            /\ P.name = svc.name
                            /\ Collides(P, batch.packages, svc.resolutions, pre)
                            /\ Range(svc.conflicts) \subseteq
                                   RenamedNames(P, svc.resolutions))

\* an install stopped by a collision on an alias: the conflicting name is one
\* the package has only through its rename map
C1_Witness ==
    /\ svc.kind = "install"
    /\ svc.status = "failed"
    /\ svc.error = "CollisionError"
    /\ svc.name \in DOMAIN svc.resolutions
    /\ \E fname \in Range(svc.conflicts) :
          \A v \in Versions :
              fname \notin {f.name : f \in Range(extract_package(svc.name, v))}

\* C2: in every reachable state each function name is listed among the
\* functions of at most one package entry of the persisted lockfile.
C2_ExclusiveOwnership ==
    \A i, j \in DOMAIN lockfile.packages :
        i # j => Range(lockfile.packages[i].functions)
                     \cap Range(lockfile.packages[j].functions) = {}

\* a finished install left a lockfile of two packages that both own functions
C2_Witness ==
    /\ svc.status = "ok"
    /\ svc.kind = "install"
    /\ \E i, j \in DOMAIN lockfile.packages :
          /\ i # j
          /\ lockfile.packages[i].functions # <<>>
          /\ lockfile.packages[j].functions # <<>>

\* the errors raised before a service assembles its writes: validation and
\* resolution (ValueError, ResolutionTooDeep), collision detection, rewrite
ReadOnlyErrors ==
    {"ValueError", "ResolutionTooDeep", "CollisionError", "AttributeError",
     "FileNotFoundError"}

C4_LockfileLast == svc.status = "failed" => lockfile = pre.lockfile


\* the package names of a list of requirements
DirectNames(deps) == {deps[i].name : i \in DOMAIN deps}

\* the least set of names that holds `names` and, with each locked package in
\* it, the names of that package's declared dependencies
RECURSIVE Reachable(_, _)
Reachable(locked, names) ==
    LET more == UNION {DirectNames(locked[i].dependencies) :
                          i \in {j \in DOMAIN locked : locked[j].name \in names}}
    IN  IF more \subseteq names THEN names
        ELSE Reachable(locked, names \cup more)

\* C12: the step that ends a remove successfully leaves in the lockfile
\* exactly the previously locked packages reachable from the remaining direct
\* dependencies of the project through the declared dependencies of locked
\* packages, and leaves no function of a pruned package in the sheet.
C12_KeepClosure ==
    [][(svc.status = "writing" /\ svc'.status = "ok" /\ svc'.kind = "remove") =>
          LET locked == LockPackages(pre)
              keep == Reachable(locked, DirectNames(project'.dependencies))
          IN  /\ {lockfile'.packages[i].name : i \in DOMAIN lockfile'.packages}
                    = {locked[i].name : i \in DOMAIN locked} \cap keep
              /\ \A i \in DOMAIN locked :
                    locked[i].name \notin keep =>
                        Range(locked[i].functions)
                            \cap {f.name : f \in sheet'} = {}]_vars


\* C13: after a successful remove of packages that were direct dependencies,
\* the saved dependency list has no entry for any of them, whatever specifier
\* the entry carried, and none of them is left in the lockfile unless a
\* package left in the lockfile declares it as a dependency.
C13_RemovedFromProject ==
    (svc.kind = "remove" /\ svc.status = "ok") =>
        \A p \in Range(svc.packages) \cap DirectNames(pre.project.dependencies) :
            /\ p \notin DirectNames(project.dependencies)
            /\ (\E i \in DOMAIN lockfile.packages : lockfile.packages[i].name = p)
                  => \E i \in DOMAIN lockfile.packages :
                        /\ lockfile.packages[i].name # p
                        /\ p \in DirectNames(lockfile.packages[i].dependencies)


\* C14: the step that ends an install or an upgrade successfully leaves in
\* the sheet no function that the previous lockfile listed for a package
\* missing from the new lockfile, unless a package of the new lockfile lists
\* that name.
C14_StaleFunctionsDeleted ==
    [][(/\ svc.status = "writing"
        /\ svc'.status = "ok"
        /\ svc'.kind \in {"install", "upgrade"}) =>
          \A i \in DOMAIN LockPackages(pre) :
              LET old == LockPackages(pre)[i] IN
              (\A j \in DOMAIN lockfile'.packages :
                    lockfile'.packages[j].name # old.name)
                 => \A fname \in Range(old.functions) :
                       \/ fname \notin {f.name : f \in sheet'}
                       \/ \E j \in DOMAIN lockfile'.packages :
                             fname \in Range(lockfile'.packages[j].functions)]_vars


\* C15: the dependency list a successful install has saved holds at most one
\* entry per package name, with or without version specifiers.
C15_OneEntryPerName ==
    (svc.kind = "install" /\ svc.status = "ok") =>
        \A i, j \in DOMAIN project.dependencies :
            project.dependencies[i].name = project.dependencies[j].name => i = j


\* every version of the package that meets each requirement the roots and the
\* returned packages place on its name
Allowed(reg, rts, pkgs, n) ==
    {v \in get_versions(reg, n) :
        \A r \in RequirementsOn(reg, rts, pkgs) :
            r.name = n => InSpecifierSet(v, r.specifier)}

\* the rounds from rs on each pin the first candidate that find_matches
\* offers, and no round fails to pin
RECURSIVE NewestAlwaysFits(_, _)
NewestAlwaysFits(reg, rs) ==
    IF rs.status # "running" THEN rs.status = "done"
    ELSE LET state == rs.states[Len(rs.states)]
             unsatisfied_names == UnsatisfiedNames(state)
         IN  IF unsatisfied_names = <<>> THEN TRUE
             ELSE LET name == MostPreferred(state, unsatisfied_names)
                      criterion == state.criteria[CritIndex(state.criteria, name)]
                      a == attempt_to_pin_criterion(reg, state, name)
                  IN  /\ a.pinned
                      /\ MappingPin(a.state.mapping, name)
                            = Package(name, criterion.candidates[1])
                      /\ NewestAlwaysFits(reg, ResolutionRound(reg, rs))

\* C16: when taking the newest version that meets the requirements known so
\* far never leaves a package without a candidate, every returned package has
\* the highest registry version that meets all requirements on it.
C16_NewestCompatible ==
    (/\ rout.status = "ok"
     /\ NewestAlwaysFits(registry, ResolutionStart(registry, roots)))
    => \A i \in DOMAIN rout.packages :
          LET p == rout.packages[i]
          IN  \A v \in Allowed(registry, roots, Range(rout.packages), p.name) :
                 v <= p.version

C18_NotInstalledFails ==
    (/\ svc.kind \in {"remove", "upgrade"}
     /\ pre.project.present
     /\ \E i \in DOMAIN svc.packages :
           svc.packages[i] \notin Keys(LockPackages(pre)))
    => /\ svc.status = "failed"
       /\ svc.error = "ValueError"
       /\ issued = 0
       /\ project = pre.project
       /\ lockfile = pre.lockfile
       /\ pre.sheet \subseteq sheet

\* C19: a remove without force, one of whose targets is declared as a
\* dependency by a locked package that is not itself a target, raises
\* ValueError and removes nothing.
C19_DependentsBlockRemove ==
    (/\ svc.kind = "remove"
     /\ pre.project.present
     /\ \E e \in Range(LockPackages(pre)) :
           /\ e.name \notin Range(svc.packages)
           /\ DependencyNamesOf(e) \cap Range(svc.packages) # {})
    => /\ svc.status = "failed"
       /\ svc.error = "ValueError"
       /\ issued = 0
       /\ project = pre.project
       /\ lockfile = pre.lockfile

\* an alias no sheet and no package uses
FreshAlias(fname) == fname \o "_2"

\* the rename maps with, for package n, a fresh alias for every function whose
\* name under the given maps is among `listed`
AliasListed(resolutions, n, functions, listed) ==
    LET old == ResolutionsFor(resolutions, n)
        hit == {f \in functions :
                   (IF InMap(old, f) THEN old[f] ELSE f) \in listed}
        new == [f \in (DOMAIN old) \cup hit |->
                   IF f \in hit THEN FreshAlias(f) ELSE old[f]]
    IN  [m \in (DOMAIN resolutions) \cup {n} |->
            IF m = n THEN new ELSE resolutions[m]]

C29_HitOnlyComplete ==
    \A n \in inst.skipped : has_artifact(cache, n) /\ cache[n] = "complete"

(***************************************************************************)
(* Further properties of the services, under Spec                          *)
(***************************************************************************)
\* C22: no package entry of the persisted lockfile lists __GSPROJECT__ or
\* __LOCK__ among its owned functions.
C22_ReservedNamesUnowned ==
    \A i \in DOMAIN lockfile.packages :
        Range(lockfile.packages[i].functions) \cap {PROJECT_NAME, LOCK_NAME} = {}

\* C23: an install whose merged dependency list holds a local entry with a
\* path that does not exist fails with the error of a missing local package
\* and writes or deletes nothing.
C23_LocalPackageMissing ==
    (/\ svc.kind = "install"
     /\ \E d \in Range(MergeDependencies(ProjectDependencies(pre), svc.packages)) :
           IsLocal(d) /\ d.specifier.ver \notin pre.paths)
    => /\ svc.status = "failed"
       /\ svc.error = "FileNotFoundError"
       /\ issued = 0
       /\ project = pre.project
       /\ lockfile = pre.lockfile
       /\ pre.sheet \subseteq sheet

(***************************************************************************)
(* Further properties of the refactorer, under SpecFormula                 *)
(***************************************************************************)
\* the nesting depth before each token and after the last, by token type
RECURSIVE TokenDepths(_, _)
TokenDepths(tokens, d) ==
    IF tokens = <<>> THEN <<d>>
    ELSE <<d>> \o TokenDepths(Tail(tokens),
                              CASE Head(tokens).type = "LPAREN" -> d + 1
                                [] Head(tokens).type = "RPAREN" -> d - 1
                                [] OTHER -> d)

\* every parenthesis token has its partner
Closed(tokens) ==
    LET ds == TokenDepths(tokens, 0)
    IN  ds[Len(ds)] = 0 /\ \A k \in DOMAIN ds : ds[k] >= 0

\* token k lies between the parentheses of the wrapping LAMBDA(e, expr) or
\* LET(e, 1, expr) call, whose expr is not empty, and is the name the call
\* declares
Shadowed(tokens, k) ==
    /\ wrap \in {"LAMBDA", "LET_PAIR"}
    /\ tokens[IF wrap = "LAMBDA" THEN 5 ELSE 7].type # "RPAREN"
    /\ tokens[k].value = Param
    /\ k > 2
    /\ \A j \in 3..k : TokenDepths(tokens, 0)[j + 1] >= 1

\* the texts token k may come out as: its own, or its alias when it is an
\* identifier the map renames and no call shadows
MayBecome(m, tokens, k) ==
    {tokens[k].value}
    \cup (IF /\ tokens[k].type = "IDENTIFIER"
              /\ InMap(m, tokens[k].value)
              /\ ~Shadowed(tokens, k)
           THEN {m[tokens[k].value]} ELSE {})

\* text is the tokens from k on in their order, each as it may come out
RECURSIVE EmitsFrom(_, _, _, _)
EmitsFrom(m, tokens, k, text) ==
    IF k > Len(tokens) THEN text = <<>>
    ELSE \E v \in MayBecome(m, tokens, k) :
            /\ StartsWith(text, v)
            /\ EmitsFrom(m, tokens, k + 1, SubSeq(text, Len(v) + 1, Len(text)))

\* C24: for a formula in which every call is closed, refactor emits all
\* tokens in their order, each with its own text but for identifiers that
\* the map renames and no call shadows, which may come out as their alias;
\* an alias is not renamed again.
C24_OnlyRenames ==
    (fphase = "ran" /\ wrap # "LET" /\ Closed(toks))
    => /\ out.status = "ok"
       /\ EmitsFrom(rmap, toks, 1, out.text)

\* the index of the ")" that matches the "(" at index lp
MatchingParen(tokens, lp) ==
    LET ds == TokenDepths(tokens, 0)
    IN  CHOOSE j \in (lp + 1)..Len(tokens) :
            /\ ds[j + 1] = ds[lp]
            /\ \A i \in lp..(j - 1) : ds[i + 1] > ds[lp]

\* the indices of the commas and semicolons at the top level of the call
\* whose "(" is at index lp
TopSeparators(tokens, lp) ==
    LET ds == TokenDepths(tokens, 0)
    IN  {i \in (lp + 1)..(MatchingParen(tokens, lp) - 1) :
            /\ tokens[i].type \in {"COMMA", "SEMICOLON"}
            /\ ds[i] = ds[lp] + 1}

\* the argument slices of that call: one per top-level separator and one
\* more for what follows the last separator, if anything does
SliceCount(tokens, lp) ==
    LET seps == TopSeparators(tokens, lp)
        last == IF seps = {} THEN lp
                ELSE CHOOSE i \in seps : \A j \in seps : j <= i
    IN  Cardinality(seps)
        + (IF last + 1 < MatchingParen(tokens, lp) THEN 1 ELSE 0)

\* C25: a call that opens the formula ends at the ")" matching its own "("
\* and has one argument slice per comma or semicolon at its top level (and
\* one for the rest): a comma or ")" inside a parenthesised group that is
\* not a call neither starts a slice nor ends the call.
C25_CallEndsAtMatch ==
    (/\ fphase = "ran"
     /\ toks # <<>>
     /\ toks[1].type = "IDENTIFIER"
     /\ IsFunc(toks, 0)
     /\ Closed(toks))
    => LET lp   == 2 + WhitespaceRun(toks, 1)
           node == parse(toks)[1]
       IN  /\ node.kind = "FunctionCallNode"
           /\ node.rparen.token = toks[MatchingParen(toks, lp)]
           /\ Len(node.args) = SliceCount(toks, lp)

(***************************************************************************)
(* Further properties of the services, under Spec                          *)
(***************************************************************************)
\* the names upgrade(packages) resolves: the targets and their dependencies
UpgradeClosure(packages) ==
    LET resolved == resolve(World, [i \in DOMAIN packages |->
                                       Dependency(packages[i], AnySpec)])
    IN  Range(packages)
        \cup (IF resolved.status = "ok" THEN Keys(resolved.packages) ELSE {})

\* C26: the lockfile a successful upgrade(packages) writes holds, unchanged,
\* the entry of every installed package that is neither a target nor a
\* resolved dependency of one, and every entry it holds lists the
\* dependencies its package declares.
C26_UpgradeKeepsOthers ==
    [][(/\ svc.status = "writing"
        /\ svc'.status = "ok"
        /\ svc'.kind = "upgrade"
        /\ svc'.packages # <<>>
        /\ Head(pending.writes).fn = "set_lockfile") =>
          /\ \A i \in DOMAIN LockPackages(pre) :
                LockPackages(pre)[i].name \notin UpgradeClosure(svc.packages)
                  => \E j \in DOMAIN lockfile'.packages :
                        lockfile'.packages[j] = LockPackages(pre)[i]
          /\ \A j \in DOMAIN lockfile'.packages :
                lockfile'.packages[j].dependencies
                  = archive_dependencies(lockfile'.packages[j])]_vars

\* C27: after a successful install with a rename map, the lockfile entry of
\* every package of the batch owns as many functions as the package's
\* archive holds: no function is dropped by the renaming, also when an alias
\* is the name of another function of the package.
C27_RenameKeepsAll ==
    (svc.kind = "install" /\ svc.status = "ok")
    => \A P \in Range(Batch(svc.packages, pre).packages) :
          \A j \in DOMAIN LockPackages(Snapshot(sheet, project, lockfile)) :
              LET entry == lockfile.packages[j] IN
              (entry.name = P.name /\ entry.version = P.version)
                => Len(entry.functions)
                     = Len(extract_package(P.name, P.version))

\* the "except CollisionError" branch of the install command: the answer
\* typed at each prompt is stored under the name the error lists
prompt_aliases(resolutions, package_name, conflicts, answers) ==
    LET old == ResolutionsFor(resolutions, package_name)
        pkg_resolutions == [f \in (DOMAIN old) \cup Range(conflicts) |->
                               IF f \in Range(conflicts) THEN answers[f] ELSE old[f]]
    IN  [m \in (DOMAIN resolutions) \cup {package_name} |->
            IF m = package_name THEN pkg_resolutions ELSE resolutions[m]]

\* the rename map of the failed attempt is the one the command holds after
\* a first attempt without aliases: empty, or the answers to the conflicts
\* that first attempt reported
AfterEarlierRound ==
    \/ svc.resolutions = <<>>
    \/ With(install(svc.packages, <<>>, pre),
            LAMBDA first :
              /\ first.then = "CollisionError"
              /\ DOMAIN svc.resolutions = {first.name}
              /\ DOMAIN svc.resolutions[first.name] = Range(first.conflicts))

\* C30: when an install attempt of the command's retry loop ends in a
\* CollisionError for package P and the caller answers every listed name
\* with an alias that collides with nothing, the next attempt raises no
\* CollisionError for P, also when the failed attempt already ran with an
\* alias from an earlier round.
C30_RetryTerminates ==
    (svc.kind = "install" /\ svc.error = "CollisionError" /\ AfterEarlierRound)
    => With(install(svc.packages,
                    prompt_aliases(svc.resolutions, svc.name, svc.conflicts,
                                   [f \in Range(svc.conflicts) |-> FreshAlias(f)]),
                    pre),
            LAMBDA again :
              ~(again.then = "CollisionError" /\ again.name = svc.name))

(***************************************************************************)
(* Properties of the stored metadata, under SpecMetadata                   *)
(***************************************************************************)
\* C28: what get_all_metadata reads after set_project_metadata and
\* set_lockfile is the requirement list of the project as it was saved, in
\* its order, and for every package entry the saved dependency list and the
\* saved list of owned functions.
C28_MetadataRoundTrip ==
    meta.phase = "read"
    => /\ meta.got.dependencies = meta.dependencies
       /\ Len(meta.got.packages) = Len(meta.packages)
       /\ \A i \in DOMAIN meta.packages :
             /\ meta.got.packages[i].dependencies = meta.packages[i].dependencies
             /\ meta.got.packages[i].functions = meta.packages[i].functions
====
